---------------------------- MODULE Spec2Model ----------------------------
(***************************************************************************)
(* SignalDeck research-orchestration engine.                               *)
(*                                                                         *)
(*   src/lib/chat/actions.tsx   runWithConcurrency, buildResearchOutput    *)
(*   src/lib/search/searx.ts    searchSearx, fetchSearx, fetchGoogleSearch *)
(*                                                                         *)
(* JavaScript runs the code on one thread: a step of the model is the code *)
(* between two awaits (one continuation), and the order in which awaited   *)
(* calls complete is free.  Array indices are 0-based as in the source; a  *)
(* JavaScript array a is the TLA+ sequence with a[i] at position i + 1.    *)
(* An array slot is <<>> while it is undefined and <<v>> once it holds v.  *)
(***************************************************************************)
EXTENDS Integers, Sequences, FiniteSets, TLC

VARIABLES
    \* ---- runWithConcurrency (actions.tsx:196-221)
    items,        \* the items array
    limit,        \* the limit argument
    nextIndex,    \* the shared work cursor
    results,      \* the results array
    loops,        \* the runWorker loops: [pc, currentIndex]
    runState,     \* "idle" | "pending" | "resolved" | "rejected"
    calls,        \* every worker call made so far: [item, index], in start order
    returned,     \* returned[i + 1] = <<v>> once worker(items[i], i) returned v
    lastFinished, \* the index whose worker call returned last, -1 before any did
    overtaken,    \* a call has returned while a call started before it was pending
    peak,         \* the largest number of worker calls in flight so far
    \* ---- searchSearx (searx.ts:117-242)
    env,          \* process.env as searchSearx reads it
    sx,           \* one searchSearx call: [pc, engine, google, primary,
                  \*   lastResponse, lastError, ret, entered, log]
    \* ---- buildResearchOutput (actions.tsx:329-572)
    phase,        \* where the invocation is: "idle", "RESOLVING", "DISCOVERING",
                  \*   "SEARCHING", "DRAFTING", "DONE", "REJECTED"
    subject,      \* the symbol argument: [target, explicit]
    baseTicker,   \* let baseTicker
    tickers,      \* let tickers
    wk,           \* the worker call of each loop: [stage, data]
    researchResults,  \* const researchResults
    synth,        \* the synthesis model call: [calls, response, fallback]
    output,       \* the returned value: <<>> or <<[tickers, report, charts]>>
    progress,     \* the messages passed to onProgress so far, in order
    onProgress,   \* the onProgress argument: "absent", "present" or "throws"
    GROQ_API_KEY_ENV,  \* the model service's key is set (actions.tsx:50)
    pair,         \* two invocations side by side, search stage only: for each
                  \*   [phase, targets, loops, wk, nextIndex, results, fed, out]
    tickerCall,   \* one call of a ticker function: [text, fn, value]
    \* ---- submitUserMessage, research mode (actions.tsx:740-832)
    submit        \* one call: [pc, aiState: [messages, done], toolState]

runnerVars == <<items, limit, nextIndex, results, loops, runState, calls,
                returned, lastFinished, overtaken, peak>>

searxVars == <<env, sx>>

researchVars == <<phase, subject, baseTicker, tickers, wk, researchResults,
                  synth, output, progress, onProgress, GROQ_API_KEY_ENV, pair,
                  tickerCall, submit>>

vars == <<runnerVars, searxVars, researchVars>>

-----------------------------------------------------------------------------
(* Bounds of the generic runner's inputs.                                  *)

MaxItems == 5
MaxLimit == 3

ItemValues == {"a", "b"}

\* The value of the generic worker's call worker(item, index): a token of its own.
WorkerValue(item, index) == [of |-> item, at |-> index]

Min(a, b) == IF a < b THEN a ELSE b

SeqsUpTo(S, n) == UNION {[1..k -> S] : k \in 0..n}

-----------------------------------------------------------------------------
(* runWithConcurrency                                                      *)

Undefined == <<>>

\* new Array(items.length)
NewArray(n) == [i \in 1..n |-> Undefined]

\* Array.from({length: Math.min(limit, items.length)}, ...): the number of loops
WorkerCountSlack(its, lim) == Len(its)
WorkerCount(its, lim) == Min(lim, Len(its))

\* nextIndex += 1
CursorSkip(cur) == cur + 2
CursorAfterClaim(cur) == cur + 1

\* results[currentIndex] = <value>: the slot the value is written to
SlotCompletionOrder(res, currentIndex) ==
    Cardinality({j \in DOMAIN res : res[j] # Undefined})
ResultSlot(res, currentIndex) == currentIndex

\* The in-flight worker calls: the loops suspended at the await of line 211.
InFlight(ls) == {w \in DOMAIN ls : ls[w].pc = "await"}

\* One pass of the while loop up to the await (lines 206-211): read the cursor,
\* leave when the items are exhausted, else advance the cursor and call worker.
\* Returns the loop's record, the cursor and the call log afterwards.
ClaimNext(its, cursor, log) ==
    IF cursor >= Len(its)
    THEN [loop |-> [pc |-> "exited", currentIndex |-> cursor],
          cursor |-> cursor, log |-> log]
    ELSE [loop |-> [pc |-> "await", currentIndex |-> cursor],
          cursor |-> CursorAfterClaim(cursor),
          log |-> Append(log, [item |-> its[cursor + 1], index |-> cursor])]

\* The loops created by Array.from, each run synchronously up to its first await.
RECURSIVE LaunchLoops(_, _, _)
LaunchLoops(its, k, acc) ==
    IF k = 0 THEN acc
    ELSE LET c == ClaimNext(its, acc.cursor, acc.log)
         IN  LaunchLoops(its, k - 1,
                 [ls |-> Append(acc.ls, c.loop), cursor |-> c.cursor, log |-> c.log])

\* The call itself, up to `await Promise.all(workers)` (lines 201-219).
RunStartWith(its, lim) ==
    LET l == LaunchLoops(its, WorkerCount(its, lim),
                         [ls |-> <<>>, cursor |-> 0, log |-> <<>>])
    IN  /\ items' = its
        /\ limit' = lim
        /\ results' = NewArray(Len(its))
        /\ returned' = NewArray(Len(its))
        /\ loops' = l.ls
        /\ nextIndex' = l.cursor
        /\ calls' = l.log
        /\ lastFinished' = -1
        /\ overtaken' = FALSE
        /\ peak' = Cardinality(InFlight(l.ls))
        /\ runState' = "pending"

\* The worker call of loop w returns v: the continuation of line 211 stores it
\* and the loop makes its next pass.
LoopResumeUnlessFailed(w, v) ==
    LET cur == loops[w].currentIndex
        c   == IF \E u \in DOMAIN loops : loops[u].pc = "failed"
               THEN [loop |-> [pc |-> "exited", currentIndex |-> nextIndex],
                     cursor |-> nextIndex, log |-> calls]
               ELSE ClaimNext(items, nextIndex, calls)
        ls  == [loops EXCEPT ![w] = c.loop]
    IN  /\ loops[w].pc = "await"
        /\ results' = [results EXCEPT ![ResultSlot(results, cur) + 1] = <<v>>]
        /\ returned' = [returned EXCEPT ![cur + 1] = <<v>>]
        /\ lastFinished' = cur
        /\ overtaken' = (overtaken \/ \E u \in InFlight(loops) :
                                        loops[u].currentIndex < cur)
        /\ loops' = ls
        /\ nextIndex' = c.cursor
        /\ calls' = c.log
        /\ peak' = IF Cardinality(InFlight(ls)) > peak
                   THEN Cardinality(InFlight(ls)) ELSE peak
        /\ UNCHANGED <<items, limit, runState>>
LoopResume(w, v) ==
    LET cur == loops[w].currentIndex
        c   == ClaimNext(items, nextIndex, calls)
        ls  == [loops EXCEPT ![w] = c.loop]
    IN  /\ loops[w].pc = "await"
        /\ results' = [results EXCEPT ![ResultSlot(results, cur) + 1] = <<v>>]
        /\ returned' = [returned EXCEPT ![cur + 1] = <<v>>]
        /\ lastFinished' = cur
        /\ overtaken' = (overtaken \/ \E u \in InFlight(loops) :
                                        loops[u].currentIndex < cur)
        /\ loops' = ls
        /\ nextIndex' = c.cursor
        /\ calls' = c.log
        /\ peak' = IF Cardinality(InFlight(ls)) > peak
                   THEN Cardinality(InFlight(ls)) ELSE peak
        /\ UNCHANGED <<items, limit, runState>>

\* The worker call of loop w rejects: nothing catches it inside runWorker, so
\* the loop's promise rejects and the loop is over.
LoopThrow(w) ==
    /\ loops[w].pc = "await"
    /\ loops' = [loops EXCEPT ![w].pc = "failed"]
    /\ UNCHANGED <<items, limit, nextIndex, results, returned, lastFinished,
                   overtaken, calls, peak, runState>>

\* Promise.all(workers) fulfils once every loop's promise has fulfilled.
AllLoopsExited(ls) == \A w \in DOMAIN ls : ls[w].pc = "exited"

\* `await Promise.all(workers); return results` (lines 219-220).
RunResolve ==
    /\ runState = "pending"
    /\ AllLoopsExited(loops)
    /\ runState' = "resolved"
    /\ UNCHANGED <<items, limit, nextIndex, results, returned, lastFinished,
                   overtaken, loops, calls, peak>>

\* Promise.all(workers) rejects as soon as one loop has rejected.
RunReject ==
    /\ runState = "pending"
    /\ \E w \in DOMAIN loops : loops[w].pc = "failed"
    /\ runState' = "rejected"
    /\ UNCHANGED <<items, limit, nextIndex, results, returned, lastFinished,
                   overtaken, loops, calls, peak>>

-----------------------------------------------------------------------------
(* searchSearx                                                             *)

MaxEngines == 2

EngineNames == <<"e1", "e2", "e3", "e4">>

\* One result entry of a response body: an object, or a falsy entry that
\* filter(Boolean) drops.
Hit == "hit"
Null == "null"

NoError == "none"

\* A SearxResponse value: {results, error?}
Outcome(res, err) == [results |-> res, error |-> err]

\* The promise of the call rejected instead of returning a value.
Thrown == [results |-> <<>>, error |-> "THROWN"]

\* getResultsCount (searx.ts:36-37)
getResultsCount(data) ==
    Cardinality({k \in DOMAIN data.results : data.results[k] # Null})

\* What the HTTP exchange of one fetch can be.  kind: "throw" (fetch rejects),
\* "non2xx", "badjson" (res.json() rejects), and for a parsed body "noresults" /
\* "noitems" (the field is absent), "error" (the provider's error field is set),
\* "data" / "items" (the field holds body), "dataerror" (the aggregator's body
\* holds results and an error field of its own).
Http(kind, body) == [kind |-> kind, body |-> body]

\* The error field of an aggregator body that carries one.
BodyError == "request_failed"

SearxBodies == {<<>>, <<Hit>>, <<Null>>, <<Hit, Hit>>}
SearxHttp ==
    {Http(k, <<>>) : k \in {"throw", "non2xx", "badjson", "noresults"}}
        \cup {Http("data", b) : b \in SearxBodies}
        \cup {Http("dataerror", b) : b \in {<<>>, <<Hit>>}}

GoogleBodies == {<<>>, <<Hit>>, <<Hit, Hit>>}
GoogleHttp ==
    {Http(k, <<>>) : k \in {"throw", "non2xx", "badjson", "error", "noitems"}}
        \cup {Http("items", b) : b \in GoogleBodies}

\* fetchSearx (searx.ts:48-68): the value it returns, or Thrown.  A parsed body
\* with a results field is returned as it is (line 67), its error field included.
fetchSearx(http) ==
    CASE http.kind \in {"throw", "badjson"} -> Thrown
      [] http.kind = "non2xx" -> Outcome(<<>>, "request_failed")
      [] http.kind = "noresults" -> Outcome(<<>>, "invalid_response")
      [] http.kind = "dataerror" -> Outcome(http.body, BodyError)
      [] OTHER -> Outcome(http.body, NoError)

\* fetchGoogleSearch (searx.ts:70-115): the value it returns, or Thrown.
fetchGoogleSearch(http) ==
    CASE http.kind \in {"throw", "badjson"} -> Thrown
      [] http.kind \in {"non2xx", "error"} -> Outcome(<<>>, "request_failed")
      [] http.kind = "noitems" -> Outcome(<<>>, NoError)
      [] OTHER -> Outcome(http.body, NoError)

\* process.env as read at searx.ts:118-142.
\*   googleApiKey, googleCx, clientId, clientSecret: the value is set (truthy)
\*   useGoogleFallback: GOOGLESEARCH_FALLBACK_SEARX is true/1/yes
\*   engines: parseEngines(SEARXNG_ENGINES)
\*   exclude: queryExclude.trim().length > 0
Envs ==
    [googleApiKey : BOOLEAN, googleCx : BOOLEAN, useGoogleFallback : BOOLEAN,
     clientId : BOOLEAN, clientSecret : BOOLEAN,
     engines : {SubSeq(EngineNames, 1, k) : k \in 0..MaxEngines},
     exclude : BOOLEAN]

NoEnv ==
    [googleApiKey |-> FALSE, googleCx |-> FALSE, useGoogleFallback |-> FALSE,
     clientId |-> FALSE, clientSecret |-> FALSE, engines |-> <<>>,
     exclude |-> TRUE]

\* A request as the log keeps it.
GoogleRequest == [to |-> "google", engine |-> "", phrasing |-> ""]
SearxRequest(engine, phrasing) ==
    [to |-> "searx", engine |-> engine, phrasing |-> phrasing]

NoOutcome == Outcome(<<>>, "unset")

\* A call before it starts.  google is googleResult; entered counts the times
\* control reached the aggregator path (line 157); log lists the HTTP requests
\* and exch how each of them ended, in the same order.
SearxIdle ==
    [pc |-> "idle", engine |-> 0, google |-> NoOutcome, primary |-> NoOutcome,
     lastResponse |-> Outcome(<<>>, NoError), lastError |-> NoOutcome,
     ret |-> NoOutcome, entered |-> 0, log |-> <<>>, exch |-> <<>>]

\* return <value>
SearxReturn(c, value) == [c EXCEPT !.pc = "done", !.ret = value]

\* The call's promise rejects (an exception outside the try of lines 161-241).
SearxReject(c) == [c EXCEPT !.pc = "thrown", !.ret = Thrown]

\* The engine named at position k of the list, "" when no list is configured.
EngineAt(e, k) == IF k = 0 THEN "" ELSE e.engines[k]

\* Issue the exclusion-filtered request of engine k (lines 171-176, 199-205).
SendPrimary(c, e, k) ==
    [c EXCEPT !.pc = "primary", !.engine = k,
              !.log = Append(@, SearxRequest(EngineAt(e, k), "filtered"))]

\* Issue the plain-phrasing request of the current engine (lines 183-188, 218-224).
SendPlain(c, e, primary) ==
    [c EXCEPT !.pc = "plain", !.primary = primary,
              !.log = Append(@, SearxRequest(EngineAt(e, c.engine), "plain"))]

\* Lines 157-176 and 195-205: the credential check, then the first aggregator
\* request.
CredentialsPresentIdOnly(e) == e.clientId
CredentialsPresent(e) == e.clientId /\ e.clientSecret

EnterAggregator(c, e) ==
    LET d == [c EXCEPT !.entered = @ + 1]
    IN  IF ~CredentialsPresent(e)
        THEN SearxReturn(d, Outcome(<<>>, "missing_credentials"))
        ELSE SendPrimary(d, e, IF Len(e.engines) = 0 THEN 0 ELSE 1)

\* Line 144.
GoogleConfigured(e) == e.googleApiKey /\ e.googleCx

\* searchSearx up to its first await (lines 118-151 or 118-176).
SearxBegin(e) ==
    IF GoogleConfigured(e)
    THEN [SearxIdle EXCEPT !.pc = "google", !.log = <<GoogleRequest>>]
    ELSE EnterAggregator(SearxIdle, e)

\* Line 152: the commercial provider's outcome is final.
GoogleIsFinalAlways(e, googleResult) == TRUE
GoogleIsFinalOnlyWithResults(e, googleResult) == getResultsCount(googleResult) > 0
GoogleIsFinal(e, googleResult) ==
    ~e.useGoogleFallback \/ getResultsCount(googleResult) > 0

\* The continuation of `await fetchGoogleSearch` (lines 145-176).
AfterGoogle(c, e, http) ==
    LET googleResult == fetchGoogleSearch(http)
        d == [c EXCEPT !.google = googleResult]
    IN  IF googleResult = Thrown THEN SearxReject(d)
        ELSE IF GoogleIsFinal(e, googleResult) THEN SearxReturn(d, googleResult)
        ELSE EnterAggregator(d, e)

\* Line 238.
EngineLoopResult(c) ==
    IF Len(c.lastResponse.results) > 0 THEN c.lastResponse
    ELSE IF c.lastError # NoOutcome THEN c.lastError
    ELSE c.lastResponse

\* `continue` or the end of one pass of the for loop (line 198): the next
\* engine's filtered request, or the return of line 238.
NextEngine(c, e) ==
    IF c.engine < Len(e.engines)
    THEN SendPrimary(c, e, c.engine + 1)
    ELSE SearxReturn(c, EngineLoopResult(c))

\* Lines 231-235.
KeepCandidate(c, candidate) ==
    IF candidate.error # NoError
    THEN [c EXCEPT !.lastError = candidate]
    ELSE [c EXCEPT !.lastResponse = candidate]

\* Lines 178-182: the plain-phrasing retry is due.
RetryPlain(e, primary) ==
    getResultsCount(primary) = 0 /\ primary.error = NoError /\ e.exclude

\* The continuation of `await fetchSearx(endpoint, primaryParams, headers)`
\* (lines 176-192 without an engine list, lines 205-235 with one).
AfterPrimary(c, e, http) ==
    LET primary == fetchSearx(http)
    IN  IF primary = Thrown
        THEN SearxReturn(c, Outcome(<<>>, "request_failed"))
        ELSE IF c.engine = 0
        THEN IF RetryPlain(e, primary)
             THEN SendPlain(c, e, primary)
             ELSE SearxReturn(c, primary)
        ELSE IF getResultsCount(primary) > 0 THEN SearxReturn(c, primary)
        ELSE IF primary.error # NoError
        THEN NextEngine([c EXCEPT !.lastError = primary], e)
        ELSE IF e.exclude THEN SendPlain(c, e, primary)
        ELSE NextEngine(KeepCandidate(c, primary), e)

\* The continuation of `await fetchSearx(endpoint, fallbackParams, headers)`
\* (lines 188-189 without an engine list, lines 224-235 with one).
AfterPlain(c, e, http) ==
    LET fallback == fetchSearx(http)
    IN  IF fallback = Thrown
        THEN SearxReturn(c, Outcome(<<>>, "request_failed"))
        ELSE IF c.engine = 0
        THEN SearxReturn(c, IF getResultsCount(fallback) > 0
                            THEN fallback ELSE c.primary)
        ELSE IF getResultsCount(fallback) > 0 THEN SearxReturn(c, fallback)
        ELSE NextEngine(KeepCandidate(c, fallback), e)


\* The continuation that the exchange http resumes.
SearxStep(c, e, http) ==
    LET d == [c EXCEPT !.exch = Append(@, http)]
    IN  CASE c.pc = "google" -> AfterGoogle(d, e, http)
          [] c.pc = "primary" -> AfterPrimary(d, e, http)
          [] c.pc = "plain" -> AfterPlain(d, e, http)
          [] OTHER -> c

SearxPending(c) == c.pc \in {"google", "primary", "plain"}

-----------------------------------------------------------------------------
(* buildResearchOutput                                                     *)

RESEARCH_TOPICS ==
    <<"news", "company fundamentals", "earnings", "valuation", "risks">>
RESEARCH_SEARCH_CONCURRENCY == 2
RESEARCH_SEARCH_DELAY_MS == 2000

\* Line 460: the worker awaits the delay after its search.
DelaySkipped == FALSE
DelayDue == RESEARCH_SEARCH_DELAY_MS > 0

TICKER_STOPLIST ==
    {"USD", "US", "ETF", "ETFs", "AI", "CEO", "CFO", "EPS", "IPO", "GDP", "SEC",
     "ETN"}

\* A text is the sequence of its characters.  Str gives the string of a text.
RECURSIVE Str(_)
Str(chars) == IF chars = <<>> THEN "" ELSE Head(chars) \o Str(Tail(chars))

Lower == <<"a", "b", "c", "d", "e", "f", "g", "h", "i", "j", "k", "l", "m",
           "n", "o", "p", "q", "r", "s", "t", "u", "v", "w", "x", "y", "z">>
Upper == <<"A", "B", "C", "D", "E", "F", "G", "H", "I", "J", "K", "L", "M",
           "N", "O", "P", "Q", "R", "S", "T", "U", "V", "W", "X", "Y", "Z">>
LowerSet == {Lower[k] : k \in DOMAIN Lower}
UpperSet == {Upper[k] : k \in DOMAIN Upper}
Digits == {"0", "1", "2", "3", "4", "5", "6", "7", "8", "9"}

\* String.prototype.toUpperCase
toUpperCase(chars) ==
    [i \in DOMAIN chars |->
        IF chars[i] \in LowerSet
        THEN Upper[CHOOSE k \in DOMAIN Lower : Lower[k] = chars[i]]
        ELSE chars[i]]

\* String.prototype.trim
RECURSIVE TrimStart(_)
TrimStart(chars) ==
    IF chars # <<>> /\ Head(chars) = " " THEN TrimStart(Tail(chars)) ELSE chars

RECURSIVE TrimEnd(_)
TrimEnd(chars) ==
    IF chars # <<>> /\ chars[Len(chars)] = " "
    THEN TrimEnd(SubSeq(chars, 1, Len(chars) - 1)) ELSE chars

TrimText(chars) == TrimEnd(TrimStart(chars))

\* [^A-Z0-9.\-] is what normalizeTicker removes.
IsTickerChar(c) == c \in UpperSet \cup Digits \cup {".", "-"}

\* normalizeTicker (actions.tsx:115-120): /^\./ has no g flag and removes one
\* leading dot.
normalizeTicker(value) ==
    LET kept == SelectSeq(toUpperCase(value), IsTickerChar)
        undotted == IF kept # <<>> /\ Head(kept) = "." THEN Tail(kept) ELSE kept
    IN  TrimText(undotted)

\* The length of HEAD{n}(?:[.-]TAIL{m})?, the group left out when m = 0.
Span(n, m) == n + (IF m > 0 THEN 1 + m ELSE 0)

\* text has HEAD{n}(?:[.-]TAIL{m})? at position i.
ShapeFits(text, i, n, m, head, tail) ==
    /\ i + Span(n, m) - 1 <= Len(text)
    /\ \A k \in 0..(n - 1) : text[i + k] \in head
    /\ m > 0 => /\ text[i + n] \in {".", "-"}
                /\ \A k \in 1..m : text[i + n + k] \in tail

\* The repetitions of HEAD{1,5}(?:[.-]TAIL{1,2})?
Repetitions == (1..5) \X (0..2)

\* Greedy quantifiers: the longest head, then the longest group.
Greediest(S) ==
    CHOOSE p \in S :
        \A q \in S : q[1] < p[1] \/ (q[1] = p[1] /\ q[2] <= p[2])

\* \b between positions e - 1 and e: one side is a word character.
IsWordAt(text, e) ==
    e \in DOMAIN text /\ text[e] \in UpperSet \cup LowerSet \cup Digits \cup {"_"}
WordBoundary(text, e) == IsWordAt(text, e - 1) # IsWordAt(text, e)

\* TICKER_PATTERN.test(value) (line 83)
TICKER_PATTERN(value) ==
    \E p \in Repetitions :
        /\ Len(value) = Span(p[1], p[2])
        /\ ShapeFits(value, 1, p[1], p[2], UpperSet \cup Digits,
                     UpperSet \cup Digits)

\* The matches of /\$([A-Za-z]{1,5}(?:[.-][A-Za-z]{1,2})?)/ that start at i.
DollarAt(text, i) ==
    {p \in Repetitions :
        /\ text[i] = "$"
        /\ ShapeFits(text, i + 1, p[1], p[2], UpperSet \cup LowerSet,
                     UpperSet \cup LowerSet)}

\* The matches of /\b[A-Z]{1,5}(?:[.-][A-Z]{1,2})?\b/ that start at i.
UpperRunAt(text, i) ==
    {p \in Repetitions :
        /\ WordBoundary(text, i)
        /\ ShapeFits(text, i, p[1], p[2], UpperSet, UpperSet)
        /\ WordBoundary(text, i + Span(p[1], p[2]))}

\* extractExplicitTicker (actions.tsx:125-135): match returns the leftmost
\* match; dollar[1] is the group after the $, upper[0] the whole match.
extractExplicitTicker(text) ==
    LET dollars == {i \in DOMAIN text : DollarAt(text, i) # {}}
        uppers == {i \in DOMAIN text : UpperRunAt(text, i) # {}}
        Leftmost(S) == CHOOSE i \in S : \A j \in S : i <= j
    IN  IF dollars # {}
        THEN LET i == Leftmost(dollars)
                 p == Greediest(DollarAt(text, i))
             IN  normalizeTicker(SubSeq(text, i + 1, i + Span(p[1], p[2])))
        ELSE IF uppers # {}
        THEN LET i == Leftmost(uppers)
                 p == Greediest(UpperRunAt(text, i))
             IN  normalizeTicker(SubSeq(text, i, i + Span(p[1], p[2]) - 1))
        ELSE <<>>

\* The texts the three functions are applied to: every text of at most MaxText
\* of these characters, and some longer words.
MaxText == 3
TextChars == {"A", "I", "a", "i", "$", ".", " "}
Words ==
    {<<"U", "S", "D">>, <<"U", "S">>, <<"E", "T", "F">>, <<"E", "T", "F", "s">>,
     <<"A", "I">>, <<"C", "E", "O">>, <<"C", "F", "O">>, <<"E", "P", "S">>,
     <<"I", "P", "O">>, <<"G", "D", "P">>, <<"S", "E", "C">>, <<"E", "T", "N">>,
     <<"N", "V", "D", "A">>, <<"M", "S", "F", "T">>, <<"B", "R", "K", ".", "B">>,
     <<"n", "v", "d", "a">>, <<"G", "O", "O", "G", "L", "E">>,
     <<"$", "u", "s", "d">>, <<"b", "u", "y", " ", "U", "S", "D">>}
Texts == SeqsUpTo(TextChars, MaxText) \cup Words

\* The strings of this model that match TICKER_PATTERN.
TickerShaped == {Str(t) : t \in {u \in Texts : TICKER_PATTERN(u)}}

\* looksLikeTicker (actions.tsx:122-123)
looksLikeTickerByShape(value) == value \in TickerShaped
looksLikeTicker(value) == value \in TickerShaped /\ value \notin TICKER_STOPLIST

\* The subjects of the research runs: target is cleanResearchTarget(symbol),
\* explicit is extractExplicitTicker(target), normalized is normalizeTicker(target).
Subjects ==
    {[target |-> "NVDA", explicit |-> "NVDA", normalized |-> "NVDA"],
     [target |-> "quantum computing", explicit |-> "",
      normalized |-> "QUANTUMCOMPUTING"]}

\* The classification call's outcomes: it rejects, or returns a text.  A text is
\* what parseResearchTickers finds in it: a JSON object with its base field, or
\* no JSON object and the upper-case runs of the text.
ClassifyResponses ==
    {[kind |-> "throw", base |-> "", words |-> <<>>],
     [kind |-> "json", base |-> "NVDA", words |-> <<>>],
     [kind |-> "json", base |-> "ETF", words |-> <<>>],
     [kind |-> "json", base |-> "", words |-> <<>>],
     [kind |-> "plain", base |-> "", words |-> <<>>],
     [kind |-> "plain", base |-> "", words |-> <<"AI", "NVDA">>]}

\* a || b on strings
OrElse(a, b) == IF a # "" THEN a ELSE b

\* parseResearchTickers(text, fallbackSymbol).base (actions.tsx:156-187); the
\* tokens of the responses are already upper-case, so normalizeTicker keeps them.
ParsedBase(resp, subj) ==
    LET fallback == IF looksLikeTicker(subj.normalized) THEN subj.normalized ELSE ""
    IN  IF resp.kind = "json"
        THEN LET baseCandidate == OrElse(resp.base, fallback)
             IN  IF looksLikeTicker(baseCandidate) THEN baseCandidate ELSE fallback
        ELSE LET unique == SelectSeq(resp.words, looksLikeTicker)
             IN  IF unique # <<>> THEN unique[1] ELSE fallback

\* Lines 384-400: baseTicker and tickers after the classification call.
AfterClassifyExplicitFirst(resp, subj) ==
    LET base == IF resp.kind = "throw" THEN subj.explicit
                ELSE OrElse(subj.explicit, ParsedBase(resp, subj))
    IN  [baseTicker |-> base,
         tickers |-> IF base # "" THEN <<base>> ELSE <<>>]
AfterClassifyWithRelated(resp, subj) ==
    LET base == IF resp.kind = "throw" THEN subj.explicit
                ELSE OrElse(ParsedBase(resp, subj), subj.explicit)
        related == IF resp.kind = "plain"
                   THEN LET Other(t) == looksLikeTicker(t) /\ t # base
                        IN  SelectSeq(resp.words, Other)
                   ELSE <<>>
    IN  [baseTicker |-> base,
         tickers |-> IF base # "" THEN <<base>> \o related ELSE <<>>]
AfterClassify(resp, subj) ==
    LET base == IF resp.kind = "throw" THEN subj.explicit
                ELSE OrElse(ParsedBase(resp, subj), subj.explicit)
    IN  [baseTicker |-> base,
         tickers |-> IF base # "" THEN <<base>> ELSE <<>>]

\* The tickers extractTickerFromText can find in the text of one result.
HitTickers == {"", "NVDA"}

\* discoverTickerViaSearch's loop over data.results (lines 288-297): the
\* candidates it can return; "THROWN" when reading a null entry raises.
RECURSIVE DiscoverCandidates(_)
DiscoverCandidates(res) ==
    IF res = <<>> THEN {""}
    ELSE IF Head(res) = Null THEN {"THROWN"}
    ELSE (HitTickers \ {""}) \cup DiscoverCandidates(Tail(res))

\* `${target} ${topic}`.trim(): the targets are trimmed texts and the topics
\* have no space at either end, so trim removes the separating space of an
\* empty target and nothing else.
QueryTopicFirst(target, topic) == topic \o " " \o target
Query(target, topic) == IF target = "" THEN topic ELSE target \o " " \o topic

\* RESEARCH_TOPICS.map((topic, topicIndex) => ({...})) for one target.
TopicsDropLast == SubSeq(RESEARCH_TOPICS, 1, Len(RESEARCH_TOPICS) - 1)
TopicList == RESEARCH_TOPICS

TasksOf(target) ==
    [k \in 1..Len(TopicList) |->
        [target |-> target, topic |-> TopicList[k], topicIndex |-> k - 1,
         query |-> Query(target, TopicList[k])]]

\* searchTargets.flatMap(...) (lines 445-452)
RECURSIVE SearchTasks(_)
SearchTasks(targets) ==
    IF targets = <<>> THEN <<>>
    ELSE TasksOf(Head(targets)) \o SearchTasks(Tail(targets))

\* Line 421.
SearchTargetsAlwaysSubject(tks, subj) == <<subj.target>>
SearchTargets(tks, subj) == IF Len(tks) > 0 THEN tks ELSE <<subj.target>>

STATUS_MISSING == "Search skipped: missing CF_ID/CF_SECRET."
STATUS_FAILED == "Search failed: request error from SearXNG."
STATUS_INVALID == "Search failed: unexpected SearXNG response."
STATUS_EMPTY == "Search completed: no results."
STATUS_NULL == "null"

\* buildSearchStatus (actions.tsx:53-71); searchSearx never returns null.
buildSearchStatusCountFirst(data) ==
    CASE getResultsCount(data) = 0 -> STATUS_EMPTY
      [] data.error = "missing_credentials" -> STATUS_MISSING
      [] data.error = "request_failed" -> STATUS_FAILED
      [] data.error = "invalid_response" -> STATUS_INVALID
      [] OTHER -> STATUS_NULL
buildSearchStatus(data) ==
    CASE data.error = "missing_credentials" -> STATUS_MISSING
      [] data.error = "request_failed" -> STATUS_FAILED
      [] data.error = "invalid_response" -> STATUS_INVALID
      [] getResultsCount(data) = 0 -> STATUS_EMPTY
      [] OTHER -> STATUS_NULL

\* The value the worker of lines 457-470 returns.
TaskResult(task, data) ==
    [target |-> task.target, query |-> task.query, topicIndex |-> task.topicIndex,
     status |-> buildSearchStatus(data), results |-> data.results]

\* resultsByTarget.get(target) (lines 473-478): the task results of one target,
\* in taskResults order.
Bucket(taskResults, target) ==
    LET Of(r) == r.target = target IN SelectSeq(taskResults, Of)

\* (a, b) => a.topicIndex - b.topicIndex
CompareReversed(a, b) == b.topicIndex - a.topicIndex
Compare(a, b) == a.topicIndex - b.topicIndex

\* entries.sort(compare): Array.prototype.sort is stable, so r goes behind
\* every entry that does not compare greater than it.
RECURSIVE InsertSorted(_, _)
InsertSorted(sorted, r) ==
    IF sorted = <<>> THEN <<r>>
    ELSE IF Compare(Head(sorted), r) <= 0
    THEN <<Head(sorted)>> \o InsertSorted(Tail(sorted), r)
    ELSE <<r>> \o sorted

RECURSIVE SortByTopicIndex(_)
SortByTopicIndex(entries) ==
    IF entries = <<>> THEN <<>>
    ELSE InsertSorted(SortByTopicIndex(SubSeq(entries, 1, Len(entries) - 1)),
                      entries[Len(entries)])

\* ({topicIndex, ...rest}) => rest
Rest(r) ==
    [target |-> r.target, query |-> r.query, status |-> r.status,
     results |-> r.results]

\* Lines 480-487.
ResearchResults(targets, taskResults) ==
    [t \in 1..Len(targets) |->
        LET entries == SortByTopicIndex(Bucket(taskResults, targets[t]))
        IN  [symbol |-> targets[t],
             searches |-> [k \in 1..Len(entries) |-> Rest(entries[k])]]]

\* Lines 489-496: the reduce over one ticker's searches, then over the tickers.
RECURSIVE TickerCount(_)
TickerCount(searches) ==
    IF searches = <<>> THEN 0
    ELSE getResultsCount(Head(searches)) + TickerCount(Tail(searches))

RECURSIVE TotalResults(_)
TotalResults(rr) ==
    IF rr = <<>> THEN 0
    ELSE TickerCount(Head(rr).searches) + TotalResults(Tail(rr))

\* Lines 497-501.
MissingCredentials(rr) ==
    \E t \in DOMAIN rr : \E k \in DOMAIN rr[t].searches :
        rr[t].searches[k].status = STATUS_MISSING

\* Lines 414-418.
SubjectLabel(base, subj) == OrElse(base, subj.target)
CoverageLine(tks, base, subj) ==
    IF Len(tks) > 0 THEN <<"Coverage", tks>>
    ELSE <<"Coverage", <<SubjectLabel(base, subj)>>>>

\* Lines 504-506: the report text as its parts.
FallbackReport(missing, base, tks, subj) ==
    [subject |-> SubjectLabel(base, subj),
     coverage |-> CoverageLine(tks, base, subj),
     text |-> IF missing
              THEN "Search is unavailable because CF_ID/CF_SECRET are missing."
              ELSE "Search results were limited. Please refine the request or try again later."]

\* Line 509: the synthesis call is made.
SynthesisDueIgnoringCredentials(missing, total) == total > 0
SynthesisNeverDue(missing, total) == FALSE
SynthesisDue(missing, total) == ~missing /\ total > 0

\* The synthesis call's outcomes: it rejects, or returns a text.
SynthesisResponses == {"throw", "", "  ", "# Research Report"}

\* String.prototype.trim on the texts above.
Trim(text) == IF text = "  " THEN "" ELSE text

\* Lines 561-564: the report after the synthesis call.
ReportUnguarded(response, fallback) ==
    [subject |-> "", coverage |-> <<>>, text |-> Trim(response)]
ReportFromSynthesis(response, fallback) ==
    IF response = "throw" \/ Trim(response) = "" THEN fallback
    ELSE [subject |-> "", coverage |-> <<>>, text |-> Trim(response)]

\* The onProgress messages of buildResearchOutput and discoverTickerViaSearch.
NOTE_IDENTIFYING == "Identifying relevant tickers..."
NOTE_SEARCHING ==
    "Searching news, fundamentals, earnings, valuation, and risks..."
NOTE_ANALYZING == "Analyzing search results..."
NOTE_DRAFTING == "Drafting the research report..."

\* Line 286.
TryingNote(target) == "Trying to resolve ticker for \"" \o target \o "\"..."

\* Line 293.
ResolvedNote(candidate) == "Resolved ticker: " \o candidate

\* tickers.join(', ')
RECURSIVE Join(_)
Join(tks) ==
    IF tks = <<>> THEN ""
    ELSE IF Len(tks) = 1 THEN tks[1]
    ELSE tks[1] \o ", " \o Join(Tail(tks))

\* Line 419.
IdentifiedNote(tks, base, subj) ==
    "Identified tickers: "
        \o (IF Len(tks) > 0 THEN Join(tks) ELSE SubjectLabel(base, subj))

\* Lines 422-426.
RunningNote(targets) ==
    "Running " \o ToString(Len(targets) * Len(RESEARCH_TOPICS))
        \o " searches with max concurrency "
        \o ToString(RESEARCH_SEARCH_CONCURRENCY) \o " and "
        \o ToString(RESEARCH_SEARCH_DELAY_MS \div 1000) \o "s delay."

\* Line 458: the worker's message for each call started between two call logs.
WorkerNotes(before, after) ==
    [k \in 1..(Len(after) - Len(before)) |->
        "Searching: " \o after[Len(before) + k].item.query]

\* Lines 503-510: the messages between the search stage and the synthesis
\* call, which is made when due.
AnnounceDraftingAlways(due) == <<NOTE_ANALYZING, NOTE_DRAFTING>>
NotesAfterSearch(due) ==
    IF due THEN <<NOTE_ANALYZING, NOTE_DRAFTING>> ELSE <<NOTE_ANALYZING>>

\* The onProgress argument (line 331): left out, a callback that returns, or a
\* callback that raises on every message.
Callbacks == {"absent", "present", "throws"}

\* onProgress?.(message) for each of the notes, on the log of the messages
\* passed so far: nothing is called when the argument is absent.
Emit(cb, log, notes) == IF cb = "absent" THEN log ELSE log \o notes

\* A StockChart of lines 316-323.
StockChart(ticker) ==
    [key |-> ticker, symbol |-> ticker, comparisonSymbols |-> <<>>]

\* buildResearchCharts (actions.tsx:300-327): the placeholder, or the heading
\* and a StockChart per ticker.
ChartsWithoutPlaceholder(tks) ==
    [kind |-> "charts", heading |-> "", charts |-> <<>>]
buildResearchCharts(tks) ==
    IF Len(tks) = 0
    THEN [kind |-> "placeholder",
          heading |-> "No ticker was identified for charting.", charts |-> <<>>]
    ELSE [kind |-> "charts", heading |-> "Research charts: " \o Join(tks),
          charts |-> [k \in DOMAIN tks |-> StockChart(tks[k])]]

\* Lines 567-571.
ResearchOutput(tks, report) ==
    [tickers |-> tks, report |-> report, charts |-> buildResearchCharts(tks)]

-----------------------------------------------------------------------------
(* The searches one call can end in.                                       *)

\* Every way the call c can end when its exchanges are drawn from g (commercial
\* provider) and s (aggregator).
RECURSIVE SearxFinals(_, _, _, _)
SearxFinals(c, e, g, s) ==
    IF ~SearxPending(c) THEN {c}
    ELSE UNION {SearxFinals(SearxStep(c, e, http), e, g, s) :
                    http \in IF c.pc = "google" THEN g ELSE s}

\* The environments and exchanges of the research runs.
\* One environment for each way the settings can matter: the fallback flag is
\* read only with the commercial provider configured, the aggregator
\* credentials only when the aggregator path can be reached.
ResearchEnvs ==
    {e \in Envs : /\ e.engines = <<>>
                  /\ e.exclude
                  /\ e.googleCx = e.googleApiKey
                  /\ e.clientSecret = e.clientId
                  /\ e.useGoogleFallback => e.googleApiKey
                  /\ (e.googleApiKey /\ ~e.useGoogleFallback) => ~e.clientId}

ResearchGoogleHttp == {h \in GoogleHttp : Len(h.body) <= 1}
\* buildResearchOutput tells missing_credentials apart (lines 497-501) and no
\* other error, so the research runs take request_failed for the aggregator's
\* errors; the bodies have at most one entry and no error field of their own.
ResearchSearxHttp ==
    {h \in SearxHttp : /\ h.kind \in {"throw", "non2xx", "badjson", "data"}
                       /\ h.body \in {<<>>, <<Hit>>}}

\* What searchSearx can return (or Thrown) in each environment.
SearxReturns ==
    [e \in ResearchEnvs |->
        {c.ret : c \in SearxFinals(SearxBegin(e), e, ResearchGoogleHttp,
                                   ResearchSearxHttp)}]

-----------------------------------------------------------------------------
(* One searchSearx call under an arbitrary environment.                    *)

NoSynthesis == [calls |-> 0, response |-> "none", fallback |-> <<>>]

NewWorkerCall == [stage |-> "search", data |-> NoOutcome]

NoTickerCall == [text |-> <<>>, fn |-> "none", value |-> <<>>]

\* No submitUserMessage call under way.
NoSubmit ==
    [pc |-> "none", aiState |-> [messages |-> <<>>, done |-> 0],
     toolState |-> <<>>]

ResearchIdle ==
    /\ phase = "idle"
    /\ subject = [target |-> "", explicit |-> "", normalized |-> ""]
    /\ baseTicker = ""
    /\ tickers = <<>>
    /\ wk = <<>>
    /\ researchResults = <<>>
    /\ synth = NoSynthesis
    /\ output = <<>>
    /\ progress = <<>>
    /\ onProgress = "absent"
    /\ GROQ_API_KEY_ENV = TRUE
    /\ pair = <<>>
    /\ tickerCall = NoTickerCall
    /\ submit = NoSubmit

InitSearx ==
    /\ env \in Envs
    /\ sx = SearxIdle
    /\ items = <<>>
    /\ limit = 0
    /\ nextIndex = 0
    /\ results = <<>>
    /\ returned = <<>>
    /\ loops = <<>>
    /\ calls = <<>>
    /\ lastFinished = -1
    /\ overtaken = FALSE
    /\ peak = 0
    /\ runState = "idle"
    /\ ResearchIdle

\* searchSearx(query) is called.
SearxCall ==
    /\ sx.pc = "idle"
    /\ sx' = SearxBegin(env)
    /\ UNCHANGED <<env, runnerVars, researchVars>>

\* The commercial provider's exchange ends.
GoogleResponds ==
    /\ sx.pc = "google"
    /\ \E http \in GoogleHttp : sx' = SearxStep(sx, env, http)
    /\ UNCHANGED <<env, runnerVars, researchVars>>

\* An aggregator exchange ends.
SearxResponds ==
    /\ sx.pc \in {"primary", "plain"}
    /\ \E http \in SearxHttp : sx' = SearxStep(sx, env, http)
    /\ UNCHANGED <<env, runnerVars, researchVars>>

NextSearx == SearxCall \/ GoogleResponds \/ SearxResponds

SpecSearx == InitSearx /\ [][NextSearx]_vars

-----------------------------------------------------------------------------
(* The runner on its own, with an arbitrary worker.                        *)

InitRun ==
    /\ items \in SeqsUpTo(ItemValues, MaxItems)
    /\ limit \in 0..MaxLimit
    /\ nextIndex = 0
    /\ results = <<>>
    /\ returned = <<>>
    /\ loops = <<>>
    /\ calls = <<>>
    /\ lastFinished = -1
    /\ overtaken = FALSE
    /\ peak = 0
    /\ runState = "idle"
    /\ env = NoEnv
    /\ sx = SearxIdle
    /\ ResearchIdle

RunStart ==
    /\ runState = "idle"
    /\ RunStartWith(items, limit)
    /\ UNCHANGED <<searxVars, researchVars>>

WorkerReturns ==
    /\ \E w \in DOMAIN loops :
        /\ loops[w].pc = "await"
        /\ LoopResume(w, WorkerValue(items[loops[w].currentIndex + 1],
                                     loops[w].currentIndex))
    /\ UNCHANGED <<searxVars, researchVars>>

WorkerRejects == (\E w \in DOMAIN loops : LoopThrow(w)) /\ UNCHANGED <<searxVars, researchVars>>

RunSettles == (RunResolve \/ RunReject) /\ UNCHANGED <<searxVars, researchVars>>

NextRun == RunStart \/ WorkerReturns \/ WorkerRejects \/ RunSettles

SpecRun == InitRun /\ [][NextRun]_vars

-----------------------------------------------------------------------------
(* One research invocation.                                                *)

ResearchInit(envs, callbacks, keys) ==
    /\ env \in envs
    /\ onProgress \in callbacks
    /\ GROQ_API_KEY_ENV \in keys
    /\ pair = <<>>
    /\ tickerCall = NoTickerCall
    /\ submit = NoSubmit
    /\ subject \in Subjects
    /\ phase = "idle"
    /\ baseTicker = ""
    /\ tickers = <<>>
    /\ wk = <<>>
    /\ researchResults = <<>>
    /\ synth = NoSynthesis
    /\ output = <<>>
    /\ progress = <<>>
    /\ sx = SearxIdle
    /\ items = <<>>
    /\ limit = 0
    /\ nextIndex = 0
    /\ results = <<>>
    /\ returned = <<>>
    /\ loops = <<>>
    /\ calls = <<>>
    /\ lastFinished = -1
    /\ overtaken = FALSE
    /\ peak = 0
    /\ runState = "idle"

\* The invocations that report their progress to a callback that returns.
InitResearch == ResearchInit(ResearchEnvs, {"present"}, {TRUE})

\* The environments of the invocations that differ in their callback: one for
\* each kind of search outcome (missing credentials, the aggregator's results
\* and errors, the commercial provider's results and rejections).
CallbackEnvs ==
    {e \in ResearchEnvs : e.googleApiKey => (e.useGoogleFallback /\ ~e.clientId)}

\* The invocations with every kind of onProgress argument.
InitCallback == ResearchInit(CallbackEnvs, Callbacks, {TRUE})

\* The invocations of a deployment with and without the model service's key.
InitModelKey == ResearchInit(CallbackEnvs, {"present"}, BOOLEAN)

\* buildResearchOutput is called: lines 333-392, up to the await of the
\* classification call; nothing catches what onProgress raises at line 338.
ResearchStart ==
    /\ phase = "idle"
    /\ progress' = Emit(onProgress, progress, <<NOTE_IDENTIFYING>>)
    /\ IF onProgress = "throws"
       THEN /\ phase' = "REJECTED"
            /\ UNCHANGED baseTicker
       ELSE /\ phase' = "RESOLVING"
            /\ baseTicker' = subject.explicit
    /\ UNCHANGED <<subject, onProgress, GROQ_API_KEY_ENV, pair, tickerCall, submit, tickers, wk, researchResults, synth, output,
                   runnerVars, searxVars>>

\* Lines 414-471, up to the await of runWithConcurrency; base is baseTicker
\* and sofar the messages up to line 413.
BeginSearch(tks, base, sofar) ==
    /\ phase' = "SEARCHING"
    /\ RunStartWith(SearchTasks(SearchTargets(tks, subject)),
                    RESEARCH_SEARCH_CONCURRENCY)
    /\ progress' = Emit(onProgress, sofar,
                         <<IdentifiedNote(tks, base, subject),
                           RunningNote(SearchTargets(tks, subject)),
                           NOTE_SEARCHING>> \o WorkerNotes(<<>>, calls'))
    /\ wk' = [w \in 1..WorkerCount(SearchTasks(SearchTargets(tks, subject)),
                                   RESEARCH_SEARCH_CONCURRENCY) |-> NewWorkerCall]

\* The classification call settled with resp (lines 393-412): the tickers are
\* known and the searches start, or discoverTickerViaSearch is called.
ClassifySettles(resp) ==
    /\ phase = "RESOLVING"
    /\ LET r == AfterClassify(resp, subject)
       IN  /\ baseTicker' = r.baseTicker
           /\ tickers' = r.tickers
           /\ IF Len(r.tickers) = 0
              THEN /\ phase' = "DISCOVERING"
                   /\ progress' = Emit(onProgress, progress,
                                        <<TryingNote(subject.target)>>)
                   /\ UNCHANGED <<wk, runnerVars>>
              ELSE BeginSearch(r.tickers, r.baseTicker, progress)
    /\ UNCHANGED <<subject, onProgress, GROQ_API_KEY_ENV, pair, tickerCall, submit, researchResults, synth, output, searxVars>>

\* A model call can return a text: the provider created at lines 334-337 has
\* a key.  Without one generateText rejects (the error of line 1687).
ModelUsable(key) == key

\* generateText returns a text (lines 393-395).
ClassifyReturns ==
    /\ ModelUsable(GROQ_API_KEY_ENV)
    /\ \E resp \in ClassifyResponses : resp.kind # "throw" /\ ClassifySettles(resp)

\* generateText rejects: the catch of lines 396-400.
ClassifyRejects ==
    \E resp \in ClassifyResponses : resp.kind = "throw" /\ ClassifySettles(resp)

\* The search of discoverTickerViaSearch settles (lines 287-297, 403-412).
DiscoveryReturns ==
    /\ phase = "DISCOVERING"
    /\ \E data \in SearxReturns[env] :
        IF data = Thrown
        THEN /\ phase' = "REJECTED"
             /\ UNCHANGED <<baseTicker, tickers, wk, progress, runnerVars>>
        ELSE \E discovered \in DiscoverCandidates(data.results) :
                IF discovered = "THROWN"
                THEN /\ phase' = "REJECTED"
                     /\ UNCHANGED <<baseTicker, tickers, wk, progress, runnerVars>>
                ELSE LET tks == IF discovered # "" THEN <<discovered>>
                                ELSE IF baseTicker # "" THEN <<baseTicker>>
                                ELSE tickers
                         base == OrElse(discovered, baseTicker)
                     IN  /\ baseTicker' = base
                         /\ tickers' = tks
                         /\ BeginSearch(tks, base,
                                IF discovered # ""
                                THEN Emit(onProgress, progress,
                                          <<ResolvedNote(discovered)>>)
                                ELSE progress)
    /\ UNCHANGED <<subject, onProgress, GROQ_API_KEY_ENV, pair, tickerCall, submit, researchResults, synth, output, searxVars>>

\* The searchSearx call of loop w's worker settles (lines 459-470): the worker
\* rejects with the search, or goes on to the delay (to its return when there
\* is no delay).
SearchReturns ==
    /\ \E w \in DOMAIN loops :
        /\ loops[w].pc = "await"
        /\ wk[w].stage = "search"
        /\ \E data \in SearxReturns[env] :
            IF data = Thrown
            THEN /\ LoopThrow(w)
                 /\ UNCHANGED <<wk, progress>>
            ELSE IF DelayDue
            THEN /\ wk' = [wk EXCEPT ![w] = [stage |-> "sleep", data |-> data]]
                 /\ UNCHANGED <<runnerVars, progress>>
            ELSE /\ LoopResume(w, TaskResult(items[loops[w].currentIndex + 1], data))
                 /\ wk' = [wk EXCEPT ![w] = NewWorkerCall]
                 /\ progress' = Emit(onProgress, progress, WorkerNotes(calls, calls'))
    /\ UNCHANGED <<phase, subject, onProgress, GROQ_API_KEY_ENV, pair, tickerCall, submit, baseTicker, tickers, researchResults, synth,
                   output, searxVars>>

\* The delay of loop w's worker ends (lines 461-470): the worker returns its
\* task result and the loop goes on.
SleepEnds ==
    /\ \E w \in DOMAIN loops :
        /\ loops[w].pc = "await"
        /\ wk[w].stage = "sleep"
        /\ LoopResume(w, TaskResult(items[loops[w].currentIndex + 1], wk[w].data))
        /\ wk' = [wk EXCEPT ![w] = NewWorkerCall]
    /\ progress' = Emit(onProgress, progress, WorkerNotes(calls, calls'))
    /\ UNCHANGED <<phase, subject, onProgress, GROQ_API_KEY_ENV, pair, tickerCall, submit, baseTicker, tickers, researchResults, synth,
                   output, searxVars>>

\* runWithConcurrency settles.
RunnerSettles ==
    /\ phase \in {"SEARCHING", "REJECTED"}
    /\ RunResolve \/ RunReject
    /\ UNCHANGED <<searxVars, researchVars>>

\* The array runWithConcurrency resolved to.
TaskResults == [i \in DOMAIN results |-> results[i][1]]

\* runWithConcurrency resolved (lines 473-560): the results are grouped and
\* counted, then the synthesis call is made or the fallback report is returned.
Aggregate ==
    /\ phase = "SEARCHING"
    /\ runState = "resolved"
    /\ LET rr == ResearchResults(SearchTargets(tickers, subject), TaskResults)
           missing == MissingCredentials(rr)
           fallbackReport == FallbackReport(missing, baseTicker, tickers, subject)
       IN  /\ researchResults' = rr
           /\ IF SynthesisDue(missing, TotalResults(rr))
              THEN /\ phase' = "DRAFTING"
                   /\ progress' = Emit(onProgress, progress, NotesAfterSearch(TRUE))
                   /\ synth' = [calls |-> synth.calls + 1, response |-> "none",
                                fallback |-> fallbackReport]
                   /\ UNCHANGED output
              ELSE /\ phase' = "DONE"
                   /\ progress' = Emit(onProgress, progress, NotesAfterSearch(FALSE))
                   /\ synth' = [synth EXCEPT !.fallback = fallbackReport]
                   /\ output' = <<ResearchOutput(tickers, fallbackReport)>>
    /\ UNCHANGED <<subject, onProgress, GROQ_API_KEY_ENV, pair, tickerCall, submit, baseTicker, tickers, wk, runnerVars, searxVars>>

\* runWithConcurrency rejected: nothing catches it (line 454).
ResearchAborts ==
    /\ phase = "SEARCHING"
    /\ runState = "rejected"
    /\ phase' = "REJECTED"
    /\ UNCHANGED <<subject, onProgress, GROQ_API_KEY_ENV, pair, tickerCall, submit, baseTicker, tickers, wk, researchResults, synth,
                   output, progress, runnerVars, searxVars>>

\* The synthesis call settles (lines 561-571).
SynthesisReturns ==
    /\ phase = "DRAFTING"
    /\ \E response \in SynthesisResponses :
        /\ ModelUsable(GROQ_API_KEY_ENV) \/ response = "throw"
        /\ synth' = [synth EXCEPT !.response = response]
        /\ output' = <<ResearchOutput(tickers,
                          ReportFromSynthesis(response, synth.fallback))>>
    /\ phase' = "DONE"
    /\ UNCHANGED <<subject, onProgress, GROQ_API_KEY_ENV, pair, tickerCall, submit, baseTicker, tickers, wk, researchResults, progress,
                   runnerVars, searxVars>>

NextResearch ==
    \/ ResearchStart
    \/ ClassifyReturns
    \/ ClassifyRejects
    \/ DiscoveryReturns
    \/ SearchReturns
    \/ SleepEnds
    \/ RunnerSettles
    \/ Aggregate
    \/ ResearchAborts
    \/ SynthesisReturns

SpecResearch == InitResearch /\ [][NextResearch]_vars

SpecCallback == InitCallback /\ [][NextResearch]_vars

SpecModelKey == InitModelKey /\ [][NextResearch]_vars

-----------------------------------------------------------------------------
(* Two research invocations at once: their search stages.                  *)

\* The searchTargets of the two invocations: the first searches NVDA, the
\* second the same ticker or another subject.
PairTargets == {<<"NVDA">>, <<"quantum computing">>}

\* What their searches return: every search of the first invocation finds a
\* result, a search of the second finds one or none.
PairData(a) ==
    IF a = 1 THEN {Outcome(<<Hit>>, NoError)}
    ELSE {Outcome(<<>>, NoError), Outcome(<<Hit>>, NoError)}

\* `const results` and `let nextIndex` are created inside runWithConcurrency
\* (lines 201-202): the call of invocation a works on the pair it created.
ClosureShared(a) == 1
ClosureOf(a) == a

PairIdle(targets) ==
    [phase |-> "idle", targets |-> targets, loops |-> <<>>, wk |-> <<>>,
     nextIndex |-> 0, results |-> <<>>, fed |-> <<>>, out |-> <<>>]

InitPair ==
    /\ pair \in {<<PairIdle(<<"NVDA">>), PairIdle(t)>> : t \in PairTargets}
    /\ env = NoEnv
    /\ sx = SearxIdle
    /\ phase = "idle"
    /\ subject = [target |-> "", explicit |-> "", normalized |-> ""]
    /\ baseTicker = ""
    /\ tickers = <<>>
    /\ wk = <<>>
    /\ researchResults = <<>>
    /\ synth = NoSynthesis
    /\ output = <<>>
    /\ progress = <<>>
    /\ onProgress = "absent"
    /\ GROQ_API_KEY_ENV = TRUE
    /\ tickerCall = NoTickerCall
    /\ submit = NoSubmit
    /\ items = <<>>
    /\ limit = 0
    /\ nextIndex = 0
    /\ results = <<>>
    /\ returned = <<>>
    /\ loops = <<>>
    /\ calls = <<>>
    /\ lastFinished = -1
    /\ overtaken = FALSE
    /\ peak = 0
    /\ runState = "idle"

PairTasks(a) == SearchTasks(pair[a].targets)

\* Invocation a reaches line 454 and calls runWithConcurrency (lines 201-219).
PairStart(a) ==
    /\ pair[a].phase = "idle"
    /\ LET its == PairTasks(a)
           k == WorkerCount(its, RESEARCH_SEARCH_CONCURRENCY)
           l == LaunchLoops(its, k, [ls |-> <<>>, cursor |-> 0, log |-> <<>>])
       IN  pair' = [pair EXCEPT ![a].phase = "SEARCHING",
                                ![a].loops = l.ls,
                                ![a].wk = [w \in 1..k |-> NewWorkerCall],
                                ![a].fed = NewArray(Len(its)),
                                ![ClosureOf(a)].results = NewArray(Len(its)),
                                ![ClosureOf(a)].nextIndex = l.cursor]

\* The search of loop w's worker of invocation a returns (lines 459-462).
PairSearchReturns(a, w) ==
    /\ pair[a].loops[w].pc = "await"
    /\ pair[a].wk[w].stage = "search"
    /\ \E data \in PairData(a) :
        pair' = [pair EXCEPT ![a].wk[w] = [stage |-> "sleep", data |-> data]]

\* Its delay ends (lines 463-469, then 211 and the next pass of 205-211).
PairSleepEnds(a, w) ==
    /\ pair[a].loops[w].pc = "await"
    /\ pair[a].wk[w].stage = "sleep"
    /\ LET cur == pair[a].loops[w].currentIndex
           data == pair[a].wk[w].data
           v == TaskResult(PairTasks(a)[cur + 1], data)
           c == ClaimNext(PairTasks(a), pair[ClosureOf(a)].nextIndex, <<>>)
       IN  pair' = [pair EXCEPT ![a].fed[cur + 1] = <<data>>,
                                ![a].wk[w] = NewWorkerCall,
                                ![a].loops[w] = c.loop,
                                ![ClosureOf(a)].results[cur + 1] = <<v>>,
                                ![ClosureOf(a)].nextIndex = c.cursor]

\* Promise.all fulfils and invocation a groups its results (lines 473-487).
PairSettles(a) ==
    /\ pair[a].phase = "SEARCHING"
    /\ AllLoopsExited(pair[a].loops)
    /\ LET res == pair[ClosureOf(a)].results
           taskResults == [i \in DOMAIN res |-> res[i][1]]
       IN  pair' = [pair EXCEPT
                        ![a].phase = "DONE",
                        ![a].out = ResearchResults(pair[a].targets, taskResults)]

PairStep(a) ==
    \/ PairStart(a)
    \/ \E w \in DOMAIN pair[a].loops : PairSearchReturns(a, w)
    \/ \E w \in DOMAIN pair[a].loops : PairSleepEnds(a, w)
    \/ PairSettles(a)

FirstSteps == PairStep(1) /\ UNCHANGED <<runnerVars, searxVars, phase, subject,
    baseTicker, tickers, wk, researchResults, synth, output, progress, onProgress,
    GROQ_API_KEY_ENV, tickerCall, submit>>

SecondSteps == PairStep(2) /\ UNCHANGED <<runnerVars, searxVars, phase, subject,
    baseTicker, tickers, wk, researchResults, synth, output, progress, onProgress,
    GROQ_API_KEY_ENV, tickerCall, submit>>

NextPair == FirstSteps \/ SecondSteps

SpecPair == InitPair /\ [][NextPair]_vars

-----------------------------------------------------------------------------
(* The ticker functions, each applied to a text.                           *)

InitTicker ==
    /\ tickerCall \in {[text |-> t, fn |-> "none", value |-> <<>>] : t \in Texts}
    /\ submit = NoSubmit
    /\ pair = <<>>
    /\ env = NoEnv
    /\ sx = SearxIdle
    /\ phase = "idle"
    /\ subject = [target |-> "", explicit |-> "", normalized |-> ""]
    /\ baseTicker = ""
    /\ tickers = <<>>
    /\ wk = <<>>
    /\ researchResults = <<>>
    /\ synth = NoSynthesis
    /\ output = <<>>
    /\ progress = <<>>
    /\ onProgress = "absent"
    /\ GROQ_API_KEY_ENV = TRUE
    /\ items = <<>>
    /\ limit = 0
    /\ nextIndex = 0
    /\ results = <<>>
    /\ returned = <<>>
    /\ loops = <<>>
    /\ calls = <<>>
    /\ lastFinished = -1
    /\ overtaken = FALSE
    /\ peak = 0
    /\ runState = "idle"

TickerCalled(fn, value) ==
    /\ tickerCall.fn = "none"
    /\ tickerCall' = [tickerCall EXCEPT !.fn = fn, !.value = value]
    /\ UNCHANGED <<runnerVars, searxVars, phase, subject, baseTicker, tickers,
                   wk, researchResults, synth, output, progress, onProgress,
                   GROQ_API_KEY_ENV, pair, submit>>

NormalizeCalled ==
    TickerCalled("normalizeTicker", normalizeTicker(tickerCall.text))

ExtractCalled ==
    TickerCalled("extractExplicitTicker", extractExplicitTicker(tickerCall.text))

LooksLikeCalled ==
    TickerCalled("looksLikeTicker", looksLikeTicker(Str(tickerCall.text)))

NextTicker == NormalizeCalled \/ ExtractCalled \/ LooksLikeCalled

SpecTicker == InitTicker /\ [][NextTicker]_vars

-----------------------------------------------------------------------------
(* The search task list, built from a list of tickers.                     *)

MaxTargets == 3

TargetNames == {"NVDA", "MSFT", "BRK.B"}

\* The state at line 421: the tickers resolved, none to MaxTargets of them.
InitTasks ==
    /\ tickers \in SeqsUpTo(TargetNames, MaxTargets)
    /\ subject \in Subjects
    /\ phase = "idle"
    /\ baseTicker = ""
    /\ wk = <<>>
    /\ researchResults = <<>>
    /\ synth = NoSynthesis
    /\ output = <<>>
    /\ progress = <<>>
    /\ onProgress = "absent"
    /\ GROQ_API_KEY_ENV = TRUE
    /\ pair = <<>>
    /\ tickerCall = NoTickerCall
    /\ submit = NoSubmit
    /\ env = NoEnv
    /\ sx = SearxIdle
    /\ items = <<>>
    /\ limit = 0
    /\ nextIndex = 0
    /\ results = <<>>
    /\ returned = <<>>
    /\ loops = <<>>
    /\ calls = <<>>
    /\ lastFinished = -1
    /\ overtaken = FALSE
    /\ peak = 0
    /\ runState = "idle"

\* Lines 421-452: searchTargets and searchTasks are built.
TasksBuilt ==
    /\ items = <<>>
    /\ items' = SearchTasks(SearchTargets(tickers, subject))
    /\ UNCHANGED <<limit, nextIndex, results, loops, runState, calls, returned,
                   lastFinished, overtaken, peak, searxVars, researchVars>>

NextTasks == TasksBuilt

SpecTasks == InitTasks /\ [][NextTasks]_vars

-----------------------------------------------------------------------------
(* buildResearchContext                                                    *)

\* The runner and the search call at rest.
RunnerQuiet ==
    /\ items = <<>>
    /\ limit = 0
    /\ nextIndex = 0
    /\ results = <<>>
    /\ returned = <<>>
    /\ loops = <<>>
    /\ calls = <<>>
    /\ lastFinished = -1
    /\ overtaken = FALSE
    /\ peak = 0
    /\ runState = "idle"
SearxQuiet == env = NoEnv /\ sx = SearxIdle

\* A SearchResult with its texts as characters; Missing is an entry that
\* filter(Boolean) drops.
Result(title, url, content) ==
    [present |-> TRUE, title |-> title, url |-> url, content |-> content]
Missing == [present |-> FALSE, title |-> <<>>, url |-> <<>>, content |-> <<>>]

LongContent == <<"a", "i", " ", "a", "i">>
ContextResults ==
    {Missing,
     Result(<<"N">>, <<"u">>, LongContent),
     Result(<<"N">>, <<"u">>, <<" ", "a", "i", " ">>),
     Result(<<"N">>, <<>>, <<" ">>),
     Result(<<" ">>, <<"u">>, <<>>)}

\* The longest result list one task carries.
MaxResults == 4

\* One line of the context.  A result line keeps its snippet apart from the
\* text before it.
Line(kind, text) == [kind |-> kind, text |-> text, snippet |-> <<>>]

\* Lines 242-247: `${index + 1}. ${title} (${url})${snippet}`.
ResultLine(result, index) ==
    LET title == IF TrimText(result.title) # <<>>
                 THEN Str(TrimText(result.title)) ELSE "Untitled"
        url == Str(TrimText(result.url))
        content == TrimText(result.content)
    IN  [kind |-> "Result",
         text |-> ToString(index + 1) \o ". " \o title \o " (" \o url \o ")",
         snippet |-> IF content # <<>> THEN <<" ", "-", " ">> \o content
                     ELSE <<>>]

\* Line 236: search.results?.filter(Boolean).slice(0, 3) ?? [].
Shown(res) ==
    LET Truthy(r) == r.present
        kept == SelectSeq(res, Truthy)
    IN  SubSeq(kept, 1, Min(3, Len(kept)))

\* Lines 232-247: the lines of one search.
StatusLine(search) ==
    IF search.status # STATUS_NULL
    THEN <<Line("Status", "Status: " \o search.status)>> ELSE <<>>
SearchLines(search) ==
    <<Line("Query", "Query: " \o search.query)>>
    \o StatusLine(search)
    \o (IF Shown(search.results) = <<>>
        THEN <<Line("None", "Results: (none)")>>
        ELSE [k \in 1..Len(Shown(search.results)) |->
                ResultLine(Shown(search.results)[k], k - 1)])

RECURSIVE SearchesLines(_)
SearchesLines(searches) ==
    IF searches = <<>> THEN <<>>
    ELSE SearchLines(Head(searches)) \o SearchesLines(Tail(searches))

\* Lines 229-249: the lines of every ticker, a blank line after each.
RECURSIVE TickersLines(_)
TickersLines(data) ==
    IF data = <<>> THEN <<>>
    ELSE <<Line("Ticker", "Ticker: " \o Head(data).symbol)>>
         \o SearchesLines(Head(data).searches)
         \o <<Line("Blank", "")>>
         \o TickersLines(Tail(data))

\* buildResearchContext (actions.tsx:223-253): join('\n').trim() drops the
\* blank line at the end.
buildResearchContext(data) ==
    IF Len(data) = 0 THEN <<Line("Text", "Search results:\n(none)")>>
    ELSE SubSeq(TickersLines(data), 1, Len(TickersLines(data)) - 1)

\* The statuses a task of the context can carry.
ContextStatuses == {STATUS_NULL, STATUS_EMPTY, STATUS_FAILED}

\* The search of topic k (from 1) of a target, as the worker returns it.
ContextSearch(target, k, status, res) ==
    [target |-> target, query |-> Query(target, RESEARCH_TOPICS[k]),
     status |-> status, results |-> res]

ShortLists == {<<>>, <<Result(<<"N">>, <<"u">>, LongContent)>>}

\* researchResults at line 511: no target, one target with one search over
\* every result list, or two targets with two searches and one.
ContextData ==
    {<<>>}
    \cup {<<[symbol |-> "NVDA",
             searches |-> <<ContextSearch("NVDA", 1, s, r)>>]>> :
            s \in ContextStatuses, r \in SeqsUpTo(ContextResults, MaxResults)}
    \cup {<<[symbol |-> "NVDA",
             searches |-> <<ContextSearch("NVDA", 1, s[1], r[1]),
                            ContextSearch("NVDA", 2, s[2], r[2])>>],
            [symbol |-> "MSFT",
             searches |-> <<ContextSearch("MSFT", 1, s[3], r[3])>>]>> :
            s \in [1..3 -> {STATUS_NULL, STATUS_EMPTY}],
            r \in [1..3 -> ShortLists]}

InitContext ==
    /\ researchResults \in ContextData
    /\ phase = "idle"
    /\ subject = [target |-> "", explicit |-> "", normalized |-> ""]
    /\ baseTicker = ""
    /\ tickers = <<>>
    /\ wk = <<>>
    /\ synth = NoSynthesis
    /\ output = <<>>
    /\ progress = <<>>
    /\ onProgress = "absent"
    /\ GROQ_API_KEY_ENV = TRUE
    /\ pair = <<>>
    /\ tickerCall = NoTickerCall
    /\ submit = NoSubmit
    /\ RunnerQuiet
    /\ SearxQuiet

\* Line 511: const researchContext = buildResearchContext(researchResults).
ContextBuilt ==
    /\ output = <<>>
    /\ output' = <<buildResearchContext(researchResults)>>
    /\ UNCHANGED <<runnerVars, searxVars, phase, subject, baseTicker, tickers,
                   wk, researchResults, synth, progress, onProgress,
                   GROQ_API_KEY_ENV, pair, tickerCall, submit>>

NextContext == ContextBuilt

SpecContext == InitContext /\ [][NextContext]_vars

-----------------------------------------------------------------------------

(* Ticker resolution over more subjects and classification responses.      *)

\* "nvda" has no explicit ticker and a ticker-shaped name; "AI stocks" has the
\* explicit ticker its upper-case word gives (lines 125-135).
ResolveSubjects ==
    Subjects
    \cup {[target |-> "nvda", explicit |-> "", normalized |-> "NVDA"],
          [target |-> "AI stocks", explicit |-> "AI", normalized |-> "AISTOCKS"]}

\* The model names MSFT; or its text holds MSFT and then NVDA, of which the
\* parser makes the base and a related ticker.
ResolveResponses ==
    ClassifyResponses
    \cup {[kind |-> "json", base |-> "MSFT", words |-> <<>>],
          [kind |-> "plain", base |-> "", words |-> <<"MSFT", "NVDA">>]}

\* The environments without aggregator credentials, with and without the
\* commercial provider in front (whose failed request rejects the search).
NoCredentialEnvs ==
    {e \in ResearchEnvs : ~e.clientId /\ (e.googleApiKey => e.useGoogleFallback)}

InitResolve ==
    /\ env \in NoCredentialEnvs
    /\ sx = SearxIdle
    /\ subject \in ResolveSubjects
    /\ onProgress = "present"
    /\ GROQ_API_KEY_ENV \in BOOLEAN
    /\ phase = "idle"
    /\ baseTicker = ""
    /\ tickers = <<>>
    /\ wk = <<>>
    /\ researchResults = <<>>
    /\ synth = NoSynthesis
    /\ output = <<>>
    /\ progress = <<>>
    /\ pair = <<>>
    /\ tickerCall = NoTickerCall
    /\ submit = NoSubmit
    /\ RunnerQuiet

\* generateText settles (lines 384-400): it returns a text when the provider
\* has a key, or rejects.
ResolveClassified ==
    \E resp \in ResolveResponses :
        /\ ModelUsable(GROQ_API_KEY_ENV) \/ resp.kind = "throw"
        /\ ClassifySettles(resp)

\* The invocation, its classification call drawn from ResolveResponses.
NextResolve ==
    \/ ResearchStart
    \/ ResolveClassified
    \/ DiscoveryReturns
    \/ SearchReturns
    \/ SleepEnds
    \/ RunnerSettles
    \/ Aggregate
    \/ ResearchAborts
    \/ SynthesisReturns

SpecResolve == InitResolve /\ [][NextResolve]_vars

-----------------------------------------------------------------------------

(* submitUserMessage in research mode.                                     *)

\* A message of the AI state: its role, the type of its content and the text
\* (or the symbol argument) it carries; the nanoid() ids are left out.
Message(role, type, content) ==
    [role |-> role, type |-> type, content |-> content]

\* Lines 749-758: the log with the user's message.
WithUserMessage(messages, content) ==
    Append(messages, Message("user", "text", content))

\* Lines 771-799: toolState.messages.
ToolMessagesInFront(messages, content) ==
    <<Message("assistant", "tool-call", content),
      Message("tool", "tool-result", content)>> \o messages
ToolMessages(messages, content) ==
    messages \o <<Message("assistant", "tool-call", content),
                  Message("tool", "tool-result", content)>>

\* Lines 808-817: finalMessages; the report as its text.
FinalMessages(toolMessages, report) ==
    IF report.text # ""
    THEN Append(toolMessages, Message("assistant", "text", report.text))
    ELSE toolMessages

\* The conversations a call can find: none yet, or an earlier exchange.
PriorLogs ==
    {<<>>,
     <<Message("user", "text", "hello"), Message("assistant", "text", "hi")>>}

InitSubmit ==
    /\ submit \in {[pc |-> "idle", aiState |-> [messages |-> log, done |-> 0],
                    toolState |-> <<>>] : log \in PriorLogs}
    /\ env \in NoCredentialEnvs
    /\ sx = SearxIdle
    /\ subject \in Subjects
    /\ onProgress = "present"
    /\ GROQ_API_KEY_ENV = TRUE
    /\ phase = "idle"
    /\ baseTicker = ""
    /\ tickers = <<>>
    /\ wk = <<>>
    /\ researchResults = <<>>
    /\ synth = NoSynthesis
    /\ output = <<>>
    /\ progress = <<>>
    /\ pair = <<>>
    /\ tickerCall = NoTickerCall
    /\ RunnerQuiet

\* Lines 746-803: the user's message is added, toolState is built from the log
\* and made the state, and buildResearchOutput is called with a callback.
SubmitBegins ==
    /\ submit.pc = "idle"
    /\ LET toolState ==
            ToolMessages(WithUserMessage(submit.aiState.messages, subject.target),
                         subject.target)
       IN  submit' = [pc |-> "research",
                      aiState |-> [messages |-> toolState, done |-> 0],
                      toolState |-> toolState]
    /\ UNCHANGED <<runnerVars, searxVars, phase, subject, baseTicker, tickers,
                   wk, researchResults, synth, output, progress, onProgress,
                   GROQ_API_KEY_ENV, pair, tickerCall>>

\* buildResearchOutput runs (line 804).
SubmitResearches == submit.pc # "idle" /\ NextResearch

\* buildResearchOutput returned (lines 807-831): aiState.done commits the
\* final messages and the call returns.
SubmitReturns ==
    /\ submit.pc = "research"
    /\ phase = "DONE"
    /\ submit' = [submit EXCEPT
            !.pc = "returned",
            !.aiState = [messages |-> FinalMessages(submit.toolState,
                                                     output[1].report),
                         done |-> @.done + 1]]
    /\ UNCHANGED <<runnerVars, searxVars, phase, subject, baseTicker, tickers,
                   wk, researchResults, synth, output, progress, onProgress,
                   GROQ_API_KEY_ENV, pair, tickerCall>>

\* buildResearchOutput rejected: the catch of lines 1685-1703 returns the
\* error display and commits nothing.
SubmitFails ==
    /\ submit.pc = "research"
    /\ phase = "REJECTED"
    /\ submit' = [submit EXCEPT !.pc = "error"]
    /\ UNCHANGED <<runnerVars, searxVars, phase, subject, baseTicker, tickers,
                   wk, researchResults, synth, output, progress, onProgress,
                   GROQ_API_KEY_ENV, pair, tickerCall>>

NextSubmit ==
    \/ SubmitBegins
    \/ SubmitResearches
    \/ SubmitReturns
    \/ SubmitFails

SpecSubmit == InitSubmit /\ [][NextSubmit]_vars

-----------------------------------------------------------------------------

(* Claims about the runner.                                                *)

Indices == 0..(Len(items) - 1)

\* The number of worker calls started and not yet completed (returned or
\* rejected), counted from the call log.
FailedLoops == {w \in DOMAIN loops : loops[w].pc = "failed"}
Completed == Cardinality({i \in DOMAIN returned : returned[i] # Undefined})
StartedNotCompleted == Len(calls) - Completed - Cardinality(FailedLoops)

\* C1: for every item list, every limit >= 1 and every completion order, the
\* resolved array has the length of items and position i holds the value that
\* the call worker(items[i], i) returned.
C1_ResultsInInputOrder ==
    (runState = "resolved" /\ limit >= 1) =>
        /\ Len(results) = Len(items)
        /\ \A i \in Indices :
            /\ results[i + 1] # Undefined
            /\ results[i + 1] = returned[i + 1]
            /\ results[i + 1] = <<WorkerValue(items[i + 1], i)>>
            /\ \E k \in DOMAIN calls : calls[k] = [item |-> items[i + 1], index |-> i]

\* Task 0 finished last of five and the run resolved.
C1_Witness ==
    /\ runState = "resolved"
    /\ limit = 2
    /\ Len(items) = 5
    /\ lastFinished = 0

\* C2: at every moment the worker calls started and not yet completed number at
\* most limit, so a further call starts only once a completion has freed a slot.
C2_AtMostLimitInFlight ==
    runState # "idle" =>
        /\ StartedNotCompleted <= limit
        /\ Cardinality(InFlight(loops)) <= limit
        /\ peak <= limit
        /\ Len(calls) <= limit + Completed

\* limit = 2 over 5 items: two calls in flight, the third started after the
\* first completion.
C2_Witness ==
    /\ limit = 2
    /\ Len(items) = 5
    /\ Len(calls) = 3
    /\ Completed = 1
    /\ StartedNotCompleted = 2
    /\ peak = 2

\* C3: no index is ever claimed twice; a run with limit >= 1 resolves only after
\* every loop has exited, and by then every index 0..items.length-1 has been
\* claimed exactly once.
C3_EachIndexClaimedOnce ==
    /\ \A j, k \in DOMAIN calls : calls[j].index = calls[k].index => j = k
    /\ \A k \in DOMAIN calls : calls[k].index \in Indices
    /\ runState = "resolved" =>
        /\ \A w \in DOMAIN loops : loops[w].pc = "exited"
        /\ limit >= 1 =>
            \A i \in Indices :
                Cardinality({k \in DOMAIN calls : calls[k].index = i}) = 1

\* A resolved run in which both loops claimed items and the second loop's first
\* call was the first to complete.
C3_Witness ==
    /\ runState = "resolved"
    /\ limit = 2
    /\ Len(items) = 5
    /\ overtaken
    /\ nextIndex = 5

-----------------------------------------------------------------------------
(* Claims about searchSearx.                                               *)

AggregatorRequests(c) == {k \in DOMAIN c.log : c.log[k].to = "searx"}

\* The commercial provider was called and returned a value with zero results.
GoogleReturnedZero(c) ==
    /\ c.google # NoOutcome
    /\ c.google # Thrown
    /\ getResultsCount(c.google) = 0

GoogleOffset(c) == IF c.log # <<>> /\ c.log[1].to = "google" THEN 1 ELSE 0

\* The non-falsy result entries of the body an exchange delivered.
HitCount(http) ==
    IF http.kind \in {"data", "dataerror", "items"}
    THEN Cardinality({j \in DOMAIN http.body : http.body[j] # Null})
    ELSE 0

\* The exchange delivered a results list without an error and nothing in it.
ZeroNoError(http) == http.kind = "data" /\ HitCount(http) = 0

\* The commercial provider's function returned a value for the exchange.
GoogleAnswered(http) == http.kind \in {"non2xx", "error", "noitems", "items"}

\* C11: with both commercial credentials configured the commercial provider
\* is the first and only commercial request of the call; when it returned
\* results, or returned anything with the fallback flag unset, the call is over
\* with that outcome and the aggregator path was never entered.
C11_CommercialFirstAndFinal ==
    GoogleConfigured(env) =>
        /\ sx.pc # "idle" => sx.log[1] = GoogleRequest
        /\ \A k \in DOMAIN sx.log : k > 1 => sx.log[k].to = "searx"
        /\ (/\ Len(sx.exch) >= 1
            /\ GoogleAnswered(sx.exch[1])
            /\ (HitCount(sx.exch[1]) > 0 \/ ~env.useGoogleFallback)) =>
                /\ sx.pc = "done"
                /\ sx.ret = sx.google
                /\ sx.ret.error = IF sx.exch[1].kind \in {"non2xx", "error"}
                                  THEN "request_failed" ELSE NoError
                /\ sx.ret.results = sx.exch[1].body
                /\ sx.entered = 0
                /\ AggregatorRequests(sx) = {}

\* The fallback flag is unset, the aggregator credentials are there, and the
\* commercial provider's error outcome was returned without asking the aggregator.
C11_Witness ==
    /\ sx.pc = "done"
    /\ GoogleConfigured(env)
    /\ ~env.useGoogleFallback
    /\ env.clientId /\ env.clientSecret
    /\ sx.exch = <<Http("error", <<>>)>>
    /\ sx.ret.error = "request_failed"
    /\ sx.entered = 0

\* C12: a call that reaches the aggregator path without the client id or
\* without the client secret is over at once with {results: [], error:
\* missing_credentials}, and no call ever sends an aggregator request without
\* both credentials.
C12_MissingCredentialsNoRequest ==
    /\ (sx.entered >= 1 /\ ~(env.clientId /\ env.clientSecret)) =>
        /\ sx.pc = "done"
        /\ sx.ret = Outcome(<<>>, "missing_credentials")
        /\ AggregatorRequests(sx) = {}
    /\ AggregatorRequests(sx) # {} => (env.clientId /\ env.clientSecret)

\* The client id is set and the secret is not; the commercial provider returned
\* nothing, the call fell back and returned missing_credentials.
C12_Witness ==
    /\ sx.pc = "done"
    /\ env.clientId /\ ~env.clientSecret
    /\ env.useGoogleFallback
    /\ GoogleReturnedZero(sx)
    /\ sx.entered = 1
    /\ sx.log = <<GoogleRequest>>
    /\ sx.ret.error = "missing_credentials"

\* C13: with no engine list and an exclusion clause, the aggregator gets the
\* filtered request first and at most one more request, the plain one; the
\* plain request is sent exactly when the filtered attempt returned zero
\* results with no error; the call then returns the retry's results if it has
\* any and the first attempt otherwise.
C13_NoEngineRetry ==
    (env.engines = <<>> /\ env.exclude) =>
        LET g == GoogleOffset(sx)
        IN  /\ Cardinality(AggregatorRequests(sx)) <= 2
            /\ g + 1 \in DOMAIN sx.log => sx.log[g + 1] = SearxRequest("", "filtered")
            /\ g + 2 \in DOMAIN sx.log => sx.log[g + 2] = SearxRequest("", "plain")
            /\ g + 1 \in DOMAIN sx.exch =>
                ((g + 2 \in DOMAIN sx.log) <=> ZeroNoError(sx.exch[g + 1]))
            /\ (g + 1 \in DOMAIN sx.exch /\ sx.exch[g + 1].kind = "data"
                    /\ HitCount(sx.exch[g + 1]) > 0) =>
                /\ sx.pc = "done"
                /\ sx.ret = Outcome(sx.exch[g + 1].body, NoError)
            /\ g + 2 \in DOMAIN sx.exch =>
                /\ sx.pc = "done"
                /\ IF HitCount(sx.exch[g + 2]) > 0
                   THEN sx.ret.results = sx.exch[g + 2].body
                   ELSE sx.ret = Outcome(sx.exch[g + 1].body, NoError)

\* The position of an engine in the configured list.
EngineIndex(name) == CHOOSE i \in DOMAIN env.engines : env.engines[i] = name

\* The aggregator exchanges of the call that delivered a list without an error.
NonErrorSeen(c) ==
    {k \in DOMAIN c.exch : k > GoogleOffset(c) /\ c.exch[k].kind = "data"}

Last(S) == CHOOSE k \in S : \A j \in S : j <= k

\* C14: with an engine list, the requests go through the engines in list
\* order, filtered before plain; the first attempt with results ends the call
\* and is returned; a call that ends without any results returns the last
\* non-error outcome it saw, and an error outcome only when it saw no other
\* (stated for the calls whose every request was answered with a parsed body
\* or a non-2xx status).
C14_EngineOrder ==
    env.engines # <<>> =>
        LET g == GoogleOffset(sx)
        IN  /\ g + 1 \in DOMAIN sx.log =>
                sx.log[g + 1] = SearxRequest(env.engines[1], "filtered")
            /\ \A k \in DOMAIN sx.log : (k > g /\ k + 1 \in DOMAIN sx.log) =>
                \/ /\ sx.log[k + 1].engine = sx.log[k].engine
                   /\ sx.log[k].phrasing = "filtered"
                   /\ sx.log[k + 1].phrasing = "plain"
                \/ /\ EngineIndex(sx.log[k + 1].engine) =
                            EngineIndex(sx.log[k].engine) + 1
                   /\ sx.log[k + 1].phrasing = "filtered"
            /\ \A k \in DOMAIN sx.exch : (k > g /\ HitCount(sx.exch[k]) > 0) =>
                /\ sx.pc = "done"
                /\ Len(sx.log) = k
                /\ sx.ret.results = sx.exch[k].body
            /\ (/\ sx.pc \in {"done", "thrown"}
                /\ Len(sx.exch) > g
                /\ \A k \in DOMAIN sx.exch : k > g =>
                        /\ sx.exch[k].kind \notin {"throw", "badjson"}
                        /\ HitCount(sx.exch[k]) = 0) =>
                    /\ sx.pc = "done"
                    /\ IF NonErrorSeen(sx) # {}
                       THEN sx.ret = Outcome(sx.exch[Last(NonErrorSeen(sx))].body,
                                             NoError)
                       ELSE sx.ret.error \in {"request_failed", "invalid_response"}

\* C15: when the commercial request ends in a transport failure, a non-2xx
\* response or a body with the provider's error field, the commercial outcome is
\* {results: [], error: request_failed}, a value, and with the fallback flag
\* unset searchSearx returns it.
C15_CommercialFailureIsOutcome ==
    (/\ GoogleConfigured(env)
     /\ Len(sx.exch) >= 1
     /\ sx.exch[1].kind \in {"throw", "non2xx", "error"}) =>
        /\ sx.google = Outcome(<<>>, "request_failed")
        /\ sx.pc # "thrown"
        /\ ~env.useGoogleFallback =>
            (sx.pc = "done" /\ sx.ret = Outcome(<<>>, "request_failed"))

\* The call made one request, it has ended and so has the call.
SingleExchange(to) ==
    /\ sx.pc \in {"done", "thrown"}
    /\ Len(sx.log) = 1
    /\ Len(sx.exch) = 1
    /\ sx.log[1].to = to

\* C16: searchSearx never rejects; a call whose only request ended with a body
\* that cannot be parsed or lacks the expected field returns {results: [],
\* error: invalid_response} (for the commercial provider: when its outcome is
\* final), and a call whose only request was an aggregator request that ended
\* non-2xx returns {results: [], error: request_failed}.
C16_MalformedIsInvalidResponse ==
    /\ sx.pc # "thrown"
    /\ (SingleExchange("searx") /\ sx.exch[1].kind \in {"badjson", "noresults"}) =>
        sx.ret = Outcome(<<>>, "invalid_response")
    /\ (SingleExchange("google") /\ ~env.useGoogleFallback
            /\ sx.exch[1].kind \in {"badjson", "noitems"}) =>
        sx.ret = Outcome(<<>>, "invalid_response")
    /\ (SingleExchange("searx") /\ sx.exch[1].kind = "non2xx") =>
        sx.ret = Outcome(<<>>, "request_failed")

ErrorStatuses == {STATUS_MISSING, STATUS_FAILED, STATUS_INVALID}

\* C17: an outcome that searchSearx returns with an error has an empty results
\* list; an outcome it returns without an error and with zero results gets the
\* no-results status, which is none of the error statuses, and every outcome
\* with an error gets one of the error statuses.
C17_ErrorMeansNoResults ==
    sx.pc = "done" =>
        /\ sx.ret.error # NoError =>
            /\ sx.ret.results = <<>>
            /\ buildSearchStatus(sx.ret) \in ErrorStatuses
        /\ (sx.ret.error = NoError /\ getResultsCount(sx.ret) = 0) =>
            /\ buildSearchStatus(sx.ret) = STATUS_EMPTY
            /\ buildSearchStatus(sx.ret) \notin ErrorStatuses

-----------------------------------------------------------------------------
(* Claims about buildResearchOutput.                                       *)

Targets == SearchTargets(tickers, subject)

\* The task result that the worker call of task i returned.
ReturnedTask(i) == returned[i + 1][1]
ReturnedTasks == {i \in Indices : returned[i + 1] # Undefined}

\* The searches are over and buildResearchOutput has gone on.
SearchStageOver == phase \in {"DRAFTING", "DONE"}

\* Some task reported missing credentials; no task returned a result.
ReturnedMissing ==
    \E i \in ReturnedTasks : ReturnedTask(i).status = STATUS_MISSING
ReturnedNothing ==
    \A i \in ReturnedTasks :
        \A j \in DOMAIN ReturnedTask(i).results : ReturnedTask(i).results[j] = Null

\* C4: a research invocation never issues the search of a (target, topic) pair
\* twice, and once its search stage is over it has issued exactly N x T
\* searches, one for each pair, whatever the searches returned.
C4_OneSearchPerPair ==
    /\ \A j, k \in DOMAIN calls :
            (/\ calls[j].item.target = calls[k].item.target
             /\ calls[j].item.topic = calls[k].item.topic) => j = k
    /\ SearchStageOver =>
        /\ Len(calls) = Len(Targets) * Len(RESEARCH_TOPICS)
        /\ \A t \in DOMAIN Targets : \A n \in DOMAIN RESEARCH_TOPICS :
            Cardinality({k \in DOMAIN calls :
                            /\ calls[k].item.target = Targets[t]
                            /\ calls[k].item.topic = RESEARCH_TOPICS[n]
                            /\ calls[k].item.query =
                                    Query(Targets[t], RESEARCH_TOPICS[n])}) = 1

\* A finished invocation whose searches returned an error value, zero results
\* and results.
C4_Witness ==
    /\ phase = "DONE"
    /\ Len(calls) = 5
    /\ \E i, j, k \in ReturnedTasks :
        /\ ReturnedTask(i).status = STATUS_FAILED
        /\ ReturnedTask(j).status = STATUS_EMPTY
        /\ ReturnedTask(k).status = STATUS_NULL

\* C5: once the search stage is over, researchResults lists the targets in
\* search-target order and, for each target, the searches by increasing topic
\* index; each entry is what the worker call of that task returned, so the
\* sequence depends on the search outcomes and not on the completion order.
C5_AggregationOrder ==
    SearchStageOver =>
        /\ Len(researchResults) = Len(Targets)
        /\ \A t \in DOMAIN Targets :
            /\ researchResults[t].symbol = Targets[t]
            /\ Len(researchResults[t].searches) = Len(RESEARCH_TOPICS)
            /\ \A n \in DOMAIN RESEARCH_TOPICS :
                /\ researchResults[t].searches[n].query =
                        Query(Targets[t], RESEARCH_TOPICS[n])
                /\ researchResults[t].searches[n] =
                        Rest(ReturnedTask((t - 1) * Len(RESEARCH_TOPICS) + n - 1))

\* The searches completed out of index order and returned different things.
C5_Witness ==
    /\ phase = "DONE"
    /\ overtaken
    /\ lastFinished = 0
    /\ ReturnedTask(0).status = STATUS_NULL
    /\ ReturnedTask(4).status = STATUS_EMPTY

\* C6: no failure of a search, a model call or a parse step aborts the
\* invocation: buildResearchOutput never rejects, and when it is done it has
\* returned a complete {tickers, report, charts}.
C6_NeverRaises ==
    /\ phase # "REJECTED"
    /\ phase = "DONE" => Len(output) = 1

\* C7: when a task reported missing credentials or the searches returned no
\* result at all, the synthesis call is never made and the report is the
\* fallback text, in the missing-credentials wording when credentials were
\* missing; with neither provider's credentials configured every task's status
\* is the missing-credentials status.
C7_FallbackSkipsSynthesis ==
    /\ (SearchStageOver /\ (ReturnedMissing \/ ReturnedNothing)) =>
        /\ synth.calls = 0
        /\ phase = "DONE"
        /\ output[1].report =
                FallbackReport(ReturnedMissing, baseTicker, tickers, subject)
    /\ (~GoogleConfigured(env) /\ ~CredentialsPresent(env)) =>
        \A i \in ReturnedTasks : ReturnedTask(i).status = STATUS_MISSING

\* Some tasks returned results and another reported missing credentials: no
\* synthesis call, the missing-credentials report.
C7_Witness ==
    /\ phase = "DONE"
    /\ ReturnedMissing
    /\ ~ReturnedNothing
    /\ synth.calls = 0
    /\ output[1].report.text =
            "Search is unavailable because CF_ID/CF_SECRET are missing."

\* C8: when the synthesis call was made and rejected or returned an empty
\* text, the invocation still returns and its report is the fallback text it
\* would have returned without the call.
C8_SynthesisFailureFallsBack ==
    (synth.calls > 0 /\ synth.response \in {"throw", "", "  "}) =>
        /\ phase = "DONE"
        /\ Len(output) = 1
        /\ output[1].report =
                FallbackReport(ReturnedMissing, baseTicker, tickers, subject)

\* The synthesis call rejected and the invocation returned.
C8_Witness ==
    /\ phase = "DONE"
    /\ synth.calls = 1
    /\ synth.response = "throw"
    /\ output[1].report.text =
            "Search results were limited. Please refine the request or try again later."

\* The targets of the search tasks the invocation built.
TaskTargets == {items[i].target : i \in DOMAIN items}

TickerSet == {tickers[k] : k \in DOMAIN tickers}

\* discoverTickerViaSearch was called; it reported a ticker.
DiscoveryRan == \E k \in DOMAIN progress : progress[k] = TryingNote(subject.target)
DiscoveryFound ==
    \E k \in DOMAIN progress : \E t \in HitTickers \ {""} :
        progress[k] = ResolvedNote(t)

\* C18: once the searches have started there is at least one search task; with
\* a ticker resolved every task's target is a resolved ticker; the tasks search
\* the cleaned subject text in place of a ticker exactly when no ticker was
\* resolved, which is exactly when there was no explicit candidate, the
\* classification step gave nothing and the discovery ran and found nothing.
C18_TargetsAreTickers ==
    phase \in {"SEARCHING", "DRAFTING", "DONE"} =>
        /\ items # <<>>
        /\ Len(items) = Len(RESEARCH_TOPICS) * Cardinality(TaskTargets)
        /\ tickers # <<>> => TaskTargets = TickerSet
        /\ tickers = <<>> => TaskTargets = {subject.target}
        /\ (tickers = <<>>) <=>
                (/\ subject.explicit = ""
                 /\ baseTicker = ""
                 /\ DiscoveryRan
                 /\ ~DiscoveryFound)
        /\ DiscoveryFound => (DiscoveryRan /\ tickers # <<>>)
        /\ DiscoveryRan => subject.explicit = ""

\* Nothing resolved "quantum computing": its five searches ran on the text.
C18_Witness ==
    /\ phase = "DONE"
    /\ tickers = <<>>
    /\ DiscoveryRan
    /\ TaskTargets = {"quantum computing"}
    /\ Len(calls) = 5

\* C19: when the classification call rejects, the explicit candidate, if there
\* is one, becomes the ticker and the searches start; otherwise the discovery
\* search is made, and when it settles the searches start, with an empty base
\* ticker and the subject text as target when it found nothing: the resolution
\* never rejects.  (A discovery that follows a rejected call starts in the very
\* state of one that follows a call returning nothing usable.)
C19_ClassifyFailureDegrades ==
    [][/\ ClassifyRejects =>
            IF subject.explicit # ""
            THEN /\ tickers' = <<subject.explicit>>
                 /\ phase' = "SEARCHING"
            ELSE /\ phase' = "DISCOVERING"
                 /\ progress'[Len(progress')] = TryingNote(subject.target)
       /\ phase = "DISCOVERING" =>
            /\ phase' = "SEARCHING"
            /\ tickers' = <<>> =>
                    (baseTicker' = "" /\ items'[1].target = subject.target)]_vars

StageNotes == <<NOTE_IDENTIFYING, NOTE_SEARCHING, NOTE_ANALYZING, NOTE_DRAFTING>>

IsStageNote(m) == \E k \in DOMAIN StageNotes : StageNotes[k] = m

\* The stage notifications emitted so far.
StageLog == SelectSeq(progress, IsStageNote)

\* The notifications come in stage order, none twice and none before its
\* turn; each is out by the time a call of its stage has been made, and the
\* ANALYZING one only after the search stage has resolved.
NotesBeforeWork ==
    /\ StageLog = SubSeq(StageNotes, 1, Len(StageLog))
    /\ phase = "RESOLVING" => StageLog = <<NOTE_IDENTIFYING>>
    /\ phase = "DISCOVERING" => StageLog = <<NOTE_IDENTIFYING>>
    /\ calls # <<>> => Len(StageLog) >= 2
    /\ Len(StageLog) >= 2 => Len(progress) >= Len(calls) + 4
    /\ Len(StageLog) >= 3 => runState = "resolved"
    /\ researchResults # <<>> => Len(StageLog) >= 3

\* C20 as claimed: the notifications of RESOLVING, SEARCHING, ANALYZING and
\* DRAFTING come in that order, each before its stage's work, and an
\* invocation that is DONE has been through all of them, also when the
\* synthesis call was skipped.
C20_AllStagesNotified ==
    /\ NotesBeforeWork
    /\ synth.calls > 0 => Len(StageLog) = 4
    /\ phase = "DONE" => StageLog = StageNotes

\* C20 amended: as above, but the DRAFTING notification is emitted exactly
\* when the synthesis call is made; an invocation that is DONE has emitted the
\* first three, and the fourth only if it made the synthesis call.
C20_StagesInOrder ==
    /\ NotesBeforeWork
    /\ (synth.calls > 0) <=> (Len(StageLog) = 4)
    /\ phase = "DONE" => Len(StageLog) >= 3

\* The searches returned nothing, the synthesis call was skipped and the
\* invocation returned without the DRAFTING notification.
C20_Witness ==
    /\ phase = "DONE"
    /\ synth.calls = 0
    /\ Len(calls) = 5
    /\ StageLog = <<NOTE_IDENTIFYING, NOTE_SEARCHING, NOTE_ANALYZING>>

\* The messages the worker of the search stage emitted: every message that is
\* not one of the resolution, the announcement of the searches or a stage.
IsTaskNote(m) ==
    /\ ~IsStageNote(m)
    /\ m # TryingNote(subject.target)
    /\ \A t \in HitTickers : m # ResolvedNote(t)
    /\ m # IdentifiedNote(tickers, baseTicker, subject)
    /\ m # RunningNote(Targets)

TaskNotes == SelectSeq(progress, IsTaskNote)

\* C21: every search task that has started was announced before its search,
\* and every task that has completed was announced once more: the worker's
\* messages number at least the searches started plus the tasks completed.
C21_NotifiedBeforeAndAfter ==
    /\ \A k \in DOMAIN calls :
            \E n \in DOMAIN progress :
                progress[n] = "Searching: " \o calls[k].item.query
    /\ Len(TaskNotes) >= Len(calls) + Completed

\* C22: the callback has no part in the outcome.  With no callback nothing is
\* reported; and an invocation rejects only where one of its searches can
\* reject (the commercial provider is configured), which holds of the
\* invocations without a callback and must hold of the others, a failing
\* callback included.
C22_CallbackCannotAlterOutcome ==
    /\ onProgress = "absent" => progress = <<>>
    /\ ~GoogleConfigured(env) => phase # "REJECTED"

\* The workers of the search stage that are awaiting their search, and those
\* awaiting the delay that follows it.
Searching == {w \in InFlight(loops) : wk[w].stage = "search"}
Sleeping == {w \in InFlight(loops) : wk[w].stage = "sleep"}

\* C23: a worker whose search has returned starts the delay and claims
\* nothing; once the searches have started, a further search starts only in the
\* step that ends the delay of the worker starting it; and the workers
\* searching or in their delay never number more than the concurrency limit,
\* so neither do the searches in flight.
C23_DelayBeforeNextClaim ==
    [][/\ \A w \in Searching :
            w \in Sleeping' => (calls' = calls /\ nextIndex' = nextIndex)
       /\ (calls # <<>> /\ calls' # calls) =>
            /\ Len(calls') = Len(calls) + 1
            /\ \E w \in Sleeping : w \in Searching' /\ Sleeping' = Sleeping \ {w}
       /\ Cardinality(Searching') + Cardinality(Sleeping')
            <= RESEARCH_SEARCH_CONCURRENCY]_vars

\* One worker is in its delay with tasks left to claim, the other is searching
\* the third task, which it claimed after its own delay.
C23_Witness ==
    /\ Len(calls) = 3
    /\ nextIndex < Len(items)
    /\ Cardinality(Sleeping) = 1
    /\ Cardinality(Searching) = 1

\* The results buffer invocation a has when its searches were answered as fed
\* records, and its grouped results then.
OwnBuffer(a) ==
    [i \in DOMAIN pair[a].fed |->
        IF pair[a].fed[i] = Undefined THEN Undefined
        ELSE <<TaskResult(PairTasks(a)[i], pair[a].fed[i][1])>>]

OwnGrouped(a) ==
    ResearchResults(pair[a].targets,
                    [i \in DOMAIN pair[a].fed |-> OwnBuffer(a)[i][1]])

\* C24: with two invocations interleaved, the cursor and the results buffer of
\* each hold its own claims and its own task results only, and the grouped
\* results of an invocation that is done are those of its own tasks and the
\* responses to its own searches, in task order.
C24_InvocationsIsolated ==
    \A a \in DOMAIN pair :
        pair[a].phase # "idle" =>
            /\ pair[a].results = OwnBuffer(a)
            /\ pair[a].nextIndex =
                    Cardinality({i \in DOMAIN pair[a].fed :
                                    pair[a].fed[i] # Undefined})
                    + Cardinality(InFlight(pair[a].loops))
            /\ pair[a].phase = "DONE" => pair[a].out = OwnGrouped(a)

\* Two invocations on the same subject, interleaved: the first is done while
\* the second is in the middle of its searches, and they were answered
\* differently.
C24_Witness ==
    /\ pair # <<>>
    /\ pair[1].targets = pair[2].targets
    /\ pair[1].phase = "DONE"
    /\ pair[2].phase = "SEARCHING"
    /\ pair[2].nextIndex = 3
    /\ pair[2].fed[1] # Undefined
    /\ pair[2].fed[1] # pair[1].fed[1]

\* C25: an invocation that ran without model credentials and whose searches
\* found results does not return the report of a run whose searches found
\* nothing ("Search results were limited...", for the same subject and
\* coverage).
C25_ConfigFailureDistinct ==
    (phase = "DONE" /\ ~GROQ_API_KEY_ENV /\ TotalResults(researchResults) > 0) =>
        output[1].report # FallbackReport(FALSE, baseTicker, tickers, subject)

\* C26: normalizeTicker is idempotent: applied to its own result it returns
\* that result.
C26_NormalizeIdempotent ==
    tickerCall.fn = "normalizeTicker" =>
        normalizeTicker(tickerCall.value) = tickerCall.value

\* The positions of text where a cash-tag starts: a $ and a letter after it.
CashTags(text) ==
    {i \in DOMAIN text :
        /\ text[i] = "$"
        /\ i + 1 \in DOMAIN text
        /\ text[i + 1] \in UpperSet \cup LowerSet}

\* C27: extractExplicitTicker returns the empty string or a normalized token
\* that passes looksLikeTicker, so never a stoplist entry; when the text has a
\* cash-tag the token is the one of its first cash-tag.
C27_ExplicitIsPlausible ==
    tickerCall.fn = "extractExplicitTicker" =>
        /\ \/ tickerCall.value = <<>>
           \/ /\ normalizeTicker(tickerCall.value) = tickerCall.value
              /\ looksLikeTicker(Str(tickerCall.value))
        /\ Str(tickerCall.value) \notin TICKER_STOPLIST
        /\ \A i \in CashTags(tickerCall.text) :
                (\A j \in CashTags(tickerCall.text) : i <= j) =>
                    /\ tickerCall.value # <<>>
                    /\ tickerCall.value[1]
                            = toUpperCase(<<tickerCall.text[i + 1]>>)[1]

\* C28: looksLikeTicker is false of every stoplist entry, ETF among them, and
\* of a token that has not the ticker shape (lower case, six letters); it is
\* true of NVDA, MSFT and BRK.B, and of every other token that has the shape
\* and is not a stoplist entry.
C28_StoplistRejected ==
    tickerCall.fn = "looksLikeTicker" =>
        /\ Str(tickerCall.text) \in TICKER_STOPLIST => tickerCall.value = FALSE
        /\ tickerCall.text = <<"E", "T", "F">> => tickerCall.value = FALSE
        /\ tickerCall.text \in {<<"n", "v", "d", "a">>,
                                <<"G", "O", "O", "G", "L", "E">>}
                => tickerCall.value = FALSE
        /\ tickerCall.text \in {<<"N", "V", "D", "A">>, <<"M", "S", "F", "T">>,
                                <<"B", "R", "K", ".", "B">>}
                => tickerCall.value = TRUE
        /\ (TICKER_PATTERN(tickerCall.text)
                /\ Str(tickerCall.text) \notin TICKER_STOPLIST)
                => tickerCall.value = TRUE

\* looksLikeTicker("ETF") returned false.
C28_Witness ==
    /\ tickerCall.fn = "looksLikeTicker"
    /\ tickerCall.text = <<"E", "T", "F">>
    /\ tickerCall.value = FALSE

\* C29: the returned tickers are the resolved ones and the returned charts have
\* one chart for each of them, in their order; when nothing was resolved (no
\* explicit ticker, nothing from the classification step, nothing found by
\* the discovery search) tickers is empty, the searches ran on the subject
\* text and charts is the placeholder, which is returned in no other case.
C29_ChartPerTicker ==
    phase = "DONE" =>
        LET out == output[1]
        IN  /\ out.tickers = tickers
            /\ out.tickers # <<>> =>
                    /\ out.charts.kind = "charts"
                    /\ Len(out.charts.charts) = Len(out.tickers)
                    /\ \A k \in DOMAIN out.tickers :
                            out.charts.charts[k].symbol = out.tickers[k]
            /\ (out.charts.kind = "placeholder") <=> (out.tickers = <<>>)
            /\ (subject.explicit = "" /\ baseTicker = "" /\ ~DiscoveryFound) =>
                    /\ out.tickers = <<>>
                    /\ TaskTargets = {subject.target}
                    /\ out.charts.kind = "placeholder"
                    /\ out.charts.charts = <<>>

\* "quantum computing": nothing resolved, the placeholder is returned.
C29_Witness ==
    /\ phase = "DONE"
    /\ subject.target = "quantum computing"
    /\ output[1].tickers = <<>>
    /\ output[1].charts.kind = "placeholder"
    /\ items[1].query = "quantum computing news"

\* C30: the task list has, for each search target in order, one task for each
\* topic in list order: the task of the t-th target and the k-th topic is at
\* position (t - 1) * T + k, with topicIndex k - 1 and the query
\* "<target> <topic>".  For the one target NVDA the queries are NVDA news,
\* NVDA company fundamentals, NVDA earnings, NVDA valuation, NVDA risks.
C30_TasksAreProduct ==
    items # <<>> =>
        /\ Len(items) = Len(Targets) * Len(RESEARCH_TOPICS)
        /\ \A t \in DOMAIN Targets : \A k \in DOMAIN RESEARCH_TOPICS :
                items[(t - 1) * Len(RESEARCH_TOPICS) + k] =
                    [target |-> Targets[t], topic |-> RESEARCH_TOPICS[k],
                     topicIndex |-> k - 1,
                     query |-> Targets[t] \o " " \o RESEARCH_TOPICS[k]]
        /\ tickers = <<"NVDA">> =>
                /\ [i \in DOMAIN items |-> items[i].query] =
                        <<"NVDA news", "NVDA company fundamentals",
                          "NVDA earnings", "NVDA valuation", "NVDA risks">>
                /\ [i \in DOMAIN items |-> items[i].topicIndex] = <<0, 1, 2, 3, 4>>

\* The tasks of NVDA then MSFT: ten tasks, the sixth is "MSFT news".
C30_Witness ==
    /\ tickers = <<"NVDA", "MSFT">>
    /\ Len(items) = 10
    /\ items[5].query = "NVDA risks"
    /\ items[6].query = "MSFT news"
    /\ items[6].topicIndex = 0

\* C31: the synthesis call is made at most once, and only when every search
\* task has returned (its delay over) and the runner has resolved; once the
\* search stage is over with no task reporting missing credentials and a
\* result among the tasks' results it has been made, exactly once; and when it
\* returned a text that is not blank that text, trimmed, is the report, which
\* is not the fallback report.
C31_SynthesisOnceAfterSearches ==
    /\ synth.calls <= 1
    /\ synth.calls = 1 =>
            /\ runState = "resolved"
            /\ ReturnedTasks = Indices
            /\ Len(calls) = Len(items)
            /\ Searching = {} /\ Sleeping = {}
            /\ ~ReturnedMissing /\ ~ReturnedNothing
    /\ (SearchStageOver /\ ~ReturnedMissing /\ ~ReturnedNothing) =>
            synth.calls = 1
    /\ (phase = "DONE" /\ synth.calls = 1
            /\ synth.response = "# Research Report") =>
            /\ output[1].report.text = "# Research Report"
            /\ output[1].report # synth.fallback
            /\ output[1].report #
                    FallbackReport(FALSE, baseTicker, tickers, subject)

\* The five searches returned, one of them with a result, the synthesis call
\* was made once and its text is the report.
C31_Witness ==
    /\ phase = "DONE"
    /\ Len(calls) = 5
    /\ synth.calls = 1
    /\ synth.response = "# Research Report"
    /\ output[1].report.text = "# Research Report"

\* Every search of the data, target by target and topic by topic.
RECURSIVE AllSearches(_)
AllSearches(data) ==
    IF data = <<>> THEN <<>>
    ELSE Head(data).searches \o AllSearches(Tail(data))

\* The position in the context of the query line of search j.
QueryLineOf(ctx, j) ==
    CHOOSE i \in DOMAIN ctx :
        /\ ctx[i].kind = "Query"
        /\ Cardinality({k \in 1..i : ctx[k].kind = "Query"}) = j

\* The context holds one query line per search, in the order of the data, a
\* status line right behind the query of a search that has a status and no
\* other status line, and never more than three result lines in a row.
ContextLayout(ctx, data) ==
    LET searches == AllSearches(data)
        lines(kind) == {i \in DOMAIN ctx : ctx[i].kind = kind}
    IN  /\ Cardinality(lines("Query")) = Len(searches)
        /\ \A j \in DOMAIN searches :
              LET at == QueryLineOf(ctx, j)
              IN  /\ ctx[at].text = "Query: " \o searches[j].query
                  /\ searches[j].status # STATUS_NULL <=>
                        (at + 1 \in lines("Status")
                            /\ ctx[at + 1].text = "Status: " \o searches[j].status)
        /\ Cardinality(lines("Status")) =
              Cardinality({j \in DOMAIN searches : searches[j].status # STATUS_NULL})
        /\ \A i \in lines("Result") :
              ~({i + 1, i + 2, i + 3} \subseteq lines("Result"))

\* Every snippet of the context is at most cap characters behind its " - ".
SnippetsWithin(ctx, cap) ==
    \A i \in DOMAIN ctx : Len(ctx[i].snippet) <= 3 + cap

\* C32: the aggregated context emits, for each target and each topic in order,
\* the query line, a status line only when the task has a status, and at most 3
\* results per task, and every snippet is cut to a fixed maximum length: a
\* length shorter than the longest content a result carries.
C32_ContextTruncatesSnippets ==
    (output # <<>> /\ Len(researchResults) > 0) =>
        /\ ContextLayout(output[1], researchResults)
        /\ \E cap \in 0..(Len(LongContent) - 1) : SnippetsWithin(output[1], cap)

\* What holds of the context instead: the layout, with every snippet the whole
\* trimmed content of its result.
ContextKeepsContent ==
    (output # <<>> /\ Len(researchResults) > 0) =>
        /\ ContextLayout(output[1], researchResults)
        /\ \A t \in DOMAIN researchResults :
           \A k \in DOMAIN researchResults[t].searches :
           \A r \in DOMAIN researchResults[t].searches[k].results :
              LET res == researchResults[t].searches[k].results[r]
                  content == TrimText(res.content)
              IN  (res.present /\ r <= 3 /\ content # <<>>) =>
                    \E i \in DOMAIN output[1] :
                        output[1][i].snippet = <<" ", "-", " ">> \o content

\* The loop whose worker returns in this step, with the outcome its search had.
ReturningLoops ==
    {w \in DOMAIN loops :
        /\ loops[w].pc = "await"
        /\ wk[w].stage = "sleep"
        /\ returned[loops[w].currentIndex + 1] = Undefined
        /\ returned'[loops[w].currentIndex + 1] # Undefined}

\* The run's missing-credentials condition, as the fallback report shows it.
MissingReported ==
    synth.fallback.text =
        "Search is unavailable because CF_ID/CF_SECRET are missing."

HasModelBase(resp) ==
    \/ resp.kind = "json" /\ looksLikeTicker(resp.base)
    \/ resp.kind = "plain" /\ \E k \in DOMAIN resp.words : looksLikeTicker(resp.words[k])
ModelBase(resp) ==
    IF resp.kind = "json" THEN resp.base
    ELSE resp.words[CHOOSE k \in DOMAIN resp.words :
                        /\ looksLikeTicker(resp.words[k])
                        /\ \A j \in 1..(k - 1) : ~looksLikeTicker(resp.words[j])]

\* The discovery queries the invocation has announced.
DiscoveryNotes ==
    {k \in DOMAIN progress : progress[k] = TryingNote(subject.target)}

ExitedLoops == {w \in DOMAIN loops : loops[w].pc = "exited"}
RunQuiet == runState # "idle" /\ InFlight(loops) = {}

\* C35 as first stated: if any worker call rejects the run never resolves (it
\* rejects and returns no array), and the remaining loops still claim and run
\* every item that was unclaimed: once no call is in flight every item has
\* been claimed.
C35_EveryUnclaimedItemRuns ==
    /\ FailedLoops # {} => runState \in {"pending", "rejected"}
    /\ runState = "rejected" => FailedLoops # {}
    /\ (RunQuiet /\ FailedLoops # {}) => Len(calls) = Len(items)

\* C35, amended: if any worker call rejects the run never resolves (it rejects
\* and returns no array); the other loops are not cancelled, and each goes on
\* claiming and running items until the items are exhausted or its own call
\* rejects: once no call is in flight every item has been claimed if a loop
\* left normally, and items are left unclaimed only when every loop failed.
C35_FailureDoesNotCancel ==
    /\ FailedLoops # {} => runState \in {"pending", "rejected"}
    /\ runState = "rejected" => FailedLoops # {}
    /\ runState = "resolved" => Len(results) = Len(items)
    /\ (RunQuiet /\ ExitedLoops # {}) =>
            (nextIndex = Len(items) /\ Len(calls) = Len(items))
    /\ (RunQuiet /\ Len(calls) < Len(items)) => FailedLoops = DOMAIN loops

\* The call on the first item rejected and the run rejected; the other loop
\* went on through the remaining items and left normally.
C35_Witness ==
    /\ runState = "rejected"
    /\ RunQuiet
    /\ Len(items) >= 4
    /\ Cardinality(FailedLoops) = 1
    /\ \E w \in FailedLoops : loops[w].currentIndex = 0
    /\ ExitedLoops # {}
    /\ Len(calls) = Len(items)
    /\ Completed = Len(items) - 1

\* The messages a research-mode call adds for its content, up to the report.
AddedMessages(content) ==
    <<Message("user", "text", content),
      Message("assistant", "tool-call", content),
      Message("tool", "tool-result", content)>>

\* C36: in a research-mode submitUserMessage the message log only grows by
\* appending and every earlier message keeps its position; a call that
\* returns without exception has appended the user message, the showResearch
\* tool-call, its tool-result and then the non-empty report as an assistant
\* message; the terminal commit happens exactly once, after the research
\* output has been built, and nothing changes the log after it.
C36_LogGrowsThenCommits ==
    [][LET before == submit.aiState.messages
           after == submit'.aiState.messages
       IN  /\ Len(before) <= Len(after)
           /\ SubSeq(after, 1, Len(before)) = before
           /\ submit.aiState.done <= submit'.aiState.done
           /\ submit'.aiState.done <= 1
           /\ submit.aiState.done = 1 => after = before
           /\ submit'.aiState.done = 1 => (phase = "DONE" /\ output # <<>>)
           /\ submit'.pc = "research" =>
                /\ submit'.aiState.done = 0
                /\ \E log \in PriorLogs : after = log \o AddedMessages(subject.target)
           /\ submit'.pc = "returned" =>
                /\ submit'.aiState.done = 1
                /\ \E log \in PriorLogs :
                        after = log \o AddedMessages(subject.target)
                                \o (IF output[1].report.text # ""
                                    THEN <<Message("assistant", "text",
                                                   output[1].report.text)>>
                                    ELSE <<>>)
           /\ submit'.pc = "error" => submit'.aiState.done = 0
      ]_vars

\* A call in a conversation of two messages returned with the synthesised
\* report: the log holds six messages, the report last, committed once.
C36_Witness ==
    /\ submit.pc = "returned"
    /\ submit.aiState.done = 1
    /\ Len(submit.aiState.messages) = 6
    /\ submit.aiState.messages[1].content = "hello"
    /\ submit.aiState.messages[3] = Message("user", "text", subject.target)
    /\ submit.aiState.messages[6] =
            Message("assistant", "text", "# Research Report")

C38_ReturnedTickersPlausible ==
    phase = "DONE" =>
        \A k \in DOMAIN output[1].tickers : looksLikeTicker(output[1].tickers[k])

\* What holds instead: a returned ticker is plausible or is the explicit
\* candidate of the subject.
ReturnedTickersPlausibleOrExplicit ==
    phase = "DONE" =>
        \A k \in DOMAIN output[1].tickers :
            \/ looksLikeTicker(output[1].tickers[k])
            \/ output[1].tickers[k] = subject.explicit

\* The commercial provider is configured with the fallback flag set and the
\* aggregator's credentials are not both there.
FallbackWithoutCredentials(e) ==
    /\ GoogleConfigured(e)
    /\ e.useGoogleFallback
    /\ ~(e.clientId /\ e.clientSecret)

\* C39: when the commercial provider is configured with the fallback flag set
\* and its request yields zero results or an error, and the aggregator's
\* credentials are absent, searchSearx returns the missing_credentials outcome
\* and not the commercial provider's, without a request to the aggregator.
C39_FallbackReportsMissingCredentials ==
    (/\ FallbackWithoutCredentials(env)
     /\ Len(sx.exch) >= 1
     /\ HitCount(sx.exch[1]) = 0) =>
        /\ sx.pc = "done"
        /\ sx.ret = Outcome(<<>>, "missing_credentials")
        /\ buildSearchStatus(sx.ret) = STATUS_MISSING
        /\ AggregatorRequests(sx) = {}

\* What holds instead: the same, for a commercial request whose function
\* returned a value; the call rejects when the request itself rejected or its
\* body could not be parsed.
FallbackReportsMissingOrRejects ==
    (/\ FallbackWithoutCredentials(env)
     /\ Len(sx.exch) >= 1
     /\ HitCount(sx.exch[1]) = 0) =>
        /\ AggregatorRequests(sx) = {}
        /\ IF GoogleAnswered(sx.exch[1])
           THEN /\ sx.pc = "done"
                /\ sx.ret = Outcome(<<>>, "missing_credentials")
                /\ buildSearchStatus(sx.ret) = STATUS_MISSING
           ELSE sx.pc = "thrown" /\ sx.ret = Thrown

\* The requests of the call to the commercial provider; the aggregator
\* requests that name the engine.
GoogleRequests(c) == {k \in DOMAIN c.log : c.log[k].to = "google"}
EngineRequests(c, engine) ==
    {k \in AggregatorRequests(c) : c.log[k].engine = engine}

\* The filtered requests of named engines whose fetchSearx returned an outcome
\* with an error.
FilteredErrors(c) ==
    {k \in AggregatorRequests(c) :
        /\ k \in DOMAIN c.exch
        /\ c.log[k].phrasing = "filtered"
        /\ c.log[k].engine # ""
        /\ fetchSearx(c.exch[k]) # Thrown
        /\ fetchSearx(c.exch[k]).error # NoError}

\* After the request at k the plain retry of its engine is skipped and the
\* next engine of the list, when there is one, is tried.
SkipsToNextEngine(c, e, k) ==
    LET i == EngineIndex(c.log[k].engine)
    IN  /\ \A j \in EngineRequests(c, c.log[k].engine) : c.log[j].phrasing # "plain"
        /\ i < Len(e.engines) =>
                /\ k + 1 \in DOMAIN c.log
                /\ c.log[k + 1] = SearxRequest(e.engines[i + 1], "filtered")

\* The bounds of the requests of one call.
RequestsBounded(c, e) ==
    /\ Cardinality(GoogleRequests(c)) <= 1
    /\ ~GoogleConfigured(e) => GoogleRequests(c) = {}
    /\ e.engines = <<>> => Cardinality(AggregatorRequests(c)) <= 2
    /\ \A i \in DOMAIN e.engines :
            Cardinality(EngineRequests(c, e.engines[i])) <= 2
    /\ Cardinality(AggregatorRequests(c)) <=
            IF e.engines = <<>> THEN 2 ELSE 2 * Len(e.engines)

\* C40: one searchSearx call issues at most 1 request to the commercial
\* provider and, to the aggregator, at most 2 when no engine list is
\* configured and at most 2 per configured engine otherwise; for an engine
\* whose filtered attempt returned an error the plain retry is skipped and the
\* next engine is tried.
C40_RequestsBoundedErrorsSkip ==
    /\ RequestsBounded(sx, env)
    /\ \A k \in FilteredErrors(sx) : SkipsToNextEngine(sx, env, k)

\* What holds instead: the bounds, and the skip to the next engine for an
\* error outcome that carries no results; one that carries results ends the
\* call.
RequestsBoundedEmptyErrorsSkip ==
    /\ RequestsBounded(sx, env)
    /\ \A k \in FilteredErrors(sx) :
            IF getResultsCount(fetchSearx(sx.exch[k])) = 0
            THEN SkipsToNextEngine(sx, env, k)
            ELSE /\ sx.pc = "done"
                 /\ sx.ret = fetchSearx(sx.exch[k])
                 /\ Len(sx.log) = k

\* C9: every research invocation reaches DONE when each external call and each
\* delay completes or fails: an invocation with nothing left to happen is DONE.
C9_StopsOnlyWhenDone == (~ENABLED NextResearch) => phase = "DONE"

=============================================================================
